---- MODULE Spec2Model ----
(***************************************************************************)
(* Connection supervisor of vscode-sqls-next (src/src/lspClient.ts,         *)
(* class SqlsClient) as a state machine.                                    *)
(*                                                                          *)
(* The supervisor owns three fields (_client, _state, _restartCount) and    *)
(* drives an lsp.LanguageClient of the vscode-languageclient library.  The  *)
(* library is the environment: per client it is Stopped, Starting, Running  *)
(* or Stopping, it answers start()/stop()/restart() and it calls the        *)
(* errorHandler callbacks (error, closed) that createLanguageClient hands   *)
(* to it.  Every async method is split at its await: the call is one        *)
(* action, the continuation runs in the action of the library event that    *)
(* settles the awaited promise (continuations are microtasks: they run      *)
(* before the next I/O event is delivered).                                 *)
(***************************************************************************)
EXTENDS Integers, FiniteSets, Sequences, TLC

\* lspClient.ts:18  private readonly _maxRestartAttempts: number = 5
maxRestartAttempts == 5
\* lspClient.ts:101  if (errorCount <= 3)
errorContinueLimit == 3

\* Bounds of the model.
MaxClients == 2      \* LanguageClient objects createLanguageClient may build
MaxInflight == 1     \* workspace/executeCommand requests awaiting a reply
MaxErrorCount == 4   \* largest occurrence count the library passes to error()

NoClient == 0
Clients == 1..MaxClients
LibStates == {"Stopped", "Starting", "Running", "Stopping"}

VARIABLES
  client,        \* _client: NoClient (undefined) or the client held
  state,         \* _state: the running flag
  restartCount,  \* _restartCount
  lib,           \* lib[c]: the library's state of client c
  created,       \* number of clients built so far
  pending,       \* <<op, c>>: an async method awaiting a promise of client c
  inflight,      \* executeCommand requests sent and not yet answered
  last,          \* what the latest step did (observable effects)
  closedRun,     \* closures since the last successful start (saturating)
  resetFrom,     \* what the last successful start reset: -1 if none yet,
                 \* maxRestartAttempts for a used-up budget, 0 otherwise
  pin,           \* result normalizer: the raw command result handed to it
  pout,          \* result normalizer: what the function applied to pin gave
  win,           \* vscode.window: the function installed per notification kind
  icpt,          \* the MessageInterceptor instances
  gen,           \* number of wrapper sets created so far
  ilast,         \* interceptor: what the latest call did
  trail,         \* interceptor: the latest calls, oldest first (at most 4)
  active,        \* the alias the server has as its active connection
  calls,         \* cross-connection listings: each caller's progress
  lastReq,       \* the alias last requested through switchConnection
  llast,         \* listings: what the latest step did
  mem,           \* globalState: the alias-prefixed entries, in key order
  dflt,          \* globalState: the value under the default-pointer key
  clr,           \* clearConnectionConfig: the progress of the call in flight
  slast,         \* config store: what the latest step did
  mw             \* execute-command middleware: each call's progress

supVars == <<client, state, restartCount, lib, created, pending, inflight, last,
             closedRun, resetFrom>>
parserVars == <<pin, pout>>
interceptorVars == <<win, icpt, gen, ilast, trail>>
listVars == <<active, calls, lastReq, llast>>
storeVars == <<mem, dflt, clr, slast>>
mwVars == <<mw>>
vars == <<supVars, parserVars, interceptorVars, listVars, storeVars, mwVars>>
notSupVars == <<parserVars, interceptorVars, listVars, storeVars, mwVars>>
notParserVars == <<supVars, interceptorVars, listVars, storeVars, mwVars>>
notInterceptorVars == <<supVars, parserVars, listVars, storeVars, mwVars>>
notListVars == <<supVars, parserVars, interceptorVars, storeVars, mwVars>>
notStoreVars == <<supVars, parserVars, interceptorVars, listVars, mwVars>>
notMwVars == <<supVars, parserVars, interceptorVars, listVars, storeVars>>

----------------------------------------------------------------------------
(* Observable effects of one step.                                         *)
(*   results  <<method, outcome>> of every method call that returned or    *)
(*            threw in this step; outcome "ok", "noop" or the error thrown *)
(*   shown    vscode.window.showErrorMessage was called                    *)
(*   action   answer of an errorHandler callback                           *)
(*   newClient, libStart, sent: a LanguageClient was built, client.start() *)
(*            was called, client.sendRequest() was called                  *)
(*   notified client.sendNotification("workspace/didChangeConfiguration")  *)
(*            was called                                                   *)

Ev(op, c) ==
  [op |-> op, c |-> c, results |-> {}, shown |-> FALSE, action |-> "none",
   newClient |-> FALSE, libStart |-> FALSE, sent |-> FALSE, count |-> 0,
   notified |-> FALSE]

Sat(n) == IF n > maxRestartAttempts + 1 THEN maxRestartAttempts + 1 ELSE n

(* the budget a successful start found: used up or not                      *)
ResetOf(rc) == IF rc = maxRestartAttempts THEN maxRestartAttempts ELSE 0

----------------------------------------------------------------------------
(* Pieces of SqlsClient, one operator per decision of the code.            *)

\* startServer: if (this._state) return
AlreadyStarted(st) == st

\* startServer: if (!this._client) this._client = this.createLanguageClient(...)
NeedsClientAlways(cl) == TRUE
NeedsClient(cl) == cl = NoClient

\* stopServer: if (!this._state || !this._client) return
NotStarted(st, cl) == ~st \/ cl = NoClient

\* executeServerCommand / forwardCommandToServer: if (!this._client || !this._state) throw
NotAvailableLax(cl, st) == cl = NoClient
NotAvailable(cl, st) == cl = NoClient \/ ~st

\* startServer, after await this._client.start(): _state = true; _restartCount = 0
StartedKeepCount(rc) == [state |-> TRUE, restartCount |-> rc]
Started(rc) == [state |-> TRUE, restartCount |-> 0]

\* startServer, catch: _state = false; showErrorMessage; throw error
StartFailedQuiet(st) == [state |-> FALSE, shown |-> FALSE, error |-> "StartFailed"]
StartFailed(st) == [state |-> FALSE, shown |-> TRUE, error |-> "StartFailed"]

\* stopServer, finally: _state = false; _client = undefined
StoppedKeepClient(cl) == [state |-> FALSE, client |-> cl]
Stopped(cl) == [state |-> FALSE, client |-> NoClient]

\* restartServer, after await this._client.restart(): _state = true
\* (_restartCount is not assigned)
RestartedKeepState(st, rc) == [state |-> st, restartCount |-> rc]
RestartedResetsCount(st, rc) == [state |-> TRUE, restartCount |-> 0]
Restarted(st, rc) == [state |-> TRUE, restartCount |-> rc]

\* restartServer, catch: _state = false; throw error
RestartFailed(st) == [state |-> FALSE, shown |-> FALSE, error |-> "RestartFailed"]

\* executeServerCommand, catch: log; showErrorMessage; throw error
\* (_state is not assigned)
ExecuteFailedStops(st) == [state |-> FALSE, shown |-> TRUE, error |-> "CommandFailed"]
ExecuteFailed(st) == [state |-> st, shown |-> TRUE, error |-> "CommandFailed"]

\* isServerRunning(): this._state && this._client !== undefined
IsServerRunning(st, cl) == st /\ cl # NoClient

\* createLanguageClient: if (!fs.existsSync(...)) { showErrorMessage; throw }
ExecutableCheckSpawnFirst(exe) ==
  [throws |-> ~exe, shown |-> ~exe, newClient |-> TRUE]
ExecutableCheck(exe) ==
  [throws |-> ~exe, shown |-> ~exe, newClient |-> exe]

\* errorHandler.error(error, message, count)
ErrorHandler(n) ==
  IF n <= errorContinueLimit
    THEN [action |-> "Continue", shown |-> FALSE]
    ELSE [action |-> "Shutdown", shown |-> TRUE]

\* errorHandler.closed()
ClosedHandlerGt(rc) ==
  IF rc > maxRestartAttempts
    THEN [action |-> "DoNotRestart", restartCount |-> rc, shown |-> TRUE]
    ELSE [action |-> "Restart", restartCount |-> rc + 1, shown |-> FALSE]
ClosedHandler(rc) ==
  IF rc >= maxRestartAttempts
    THEN [action |-> "DoNotRestart", restartCount |-> rc, shown |-> TRUE]
    ELSE [action |-> "Restart", restartCount |-> rc + 1, shown |-> FALSE]

----------------------------------------------------------------------------
(* A JavaScript value is a record of one shape: t is its kind, n its        *)
(* number, s its text, items the elements of an array or the property      *)
(* values of an object, keys the property names in insertion order.        *)
V(t, n, s, items, keys) ==
  [t |-> t, n |-> n, s |-> s, items |-> items, keys |-> keys]

Undef == V("undefined", 0, "", <<>>, <<>>)
Null == V("null", 0, "", <<>>, <<>>)
Bool(b) == V("bool", IF b THEN 1 ELSE 0, "", <<>>, <<>>)
Num(n) == V("num", n, "", <<>>, <<>>)
BigInt(n) == V("bigint", n, "", <<>>, <<>>)
Str(s) == V("str", 0, s, <<>>, <<>>)
Arr(items) == V("arr", 0, "", items, <<>>)
Obj(keys, items) == V("obj", 0, "", items, keys)
(* An object whose property "self" is the object itself.                    *)
Cyclic == V("cyclic", 0, "", <<>>, <<"self">>)

(* The message interceptor before any instance is constructed: the host's  *)
(* own functions are installed.  A function is known by who made it.       *)
MaxInterceptors == 2
MaxActivations == 3
Interceptors == 1..MaxInterceptors
Kinds == {"error", "warning", "info"}
Host(kind) == [by |-> 0, gen |-> 0, kind |-> kind]
HostWindow == [k \in Kinds |-> Host(k)]
(* options.filter: absent, or a predicate known by the messages it        *)
(* rejects; options.transformer: absent, or a rewrite of one message       *)
NoFilter == [has |-> FALSE, rejects |-> {}]
NoTransformer == [has |-> FALSE, from |-> "", to |-> ""]
NotMade == [made |-> FALSE, isActive |-> FALSE, orig |-> HostWindow,
            filter |-> NoFilter, transformer |-> NoTransformer]
NoCall == [op |-> "none", i |-> 0, wasActive |-> FALSE, winBefore |-> HostWindow,
           kind |-> "", message |-> "", hops |-> <<>>, hostGot |-> <<>>,
           result |-> "none"]
InterceptorIdle ==
  /\ win = HostWindow
  /\ icpt = [i \in Interceptors |-> NotMade]
  /\ gen = 0
  /\ ilast = NoCall
  /\ trail = <<>>

(* The server before any cross-connection listing.                         *)
MaxCallers == 2
Callers == 1..MaxCallers
Aliases == {"a", "b", "c"}
DefaultAlias == "a"
NoListing == [pc |-> "idle", target |-> DefaultAlias, prev |-> DefaultAlias,
              before |-> DefaultAlias, issued |-> <<>>, failed |-> FALSE,
              disturbed |-> FALSE]
NoStep == [op |-> "none", p |-> 0]
ListIdle ==
  /\ active = DefaultAlias
  /\ calls = [p \in Callers |-> NoListing]
  /\ lastReq = "none"
  /\ llast = NoStep

(* The connection config store of a fresh installation.                    *)
(* NoAlias is the undefined default pointer, NoConfig an undefined lookup. *)
NoAlias == ""
NoConfig == [alias |-> "", dataSourceName |-> ""]
NoClear == [pc |-> "idle", todo |-> <<>>, deleted |-> 0, upserted |-> FALSE,
            selected |-> FALSE]
NoStoreCall ==
  [op |-> "none", alias |-> "", list |-> <<>>, cur |-> NoConfig,
   pushed |-> FALSE, sent |-> FALSE, connections |-> <<>>,
   existed |-> FALSE, deleted |-> 0, upserted |-> FALSE, selected |-> FALSE]
StoreIdle ==
  /\ mem = <<>>
  /\ dflt = NoAlias
  /\ clr = NoClear
  /\ slast = NoStoreCall

(* Nothing handed to the result normalizer yet.                             *)
NoInput == [kind |-> "none", v |-> Undef, cs |-> <<>>, names |-> <<>>, cells |-> <<>>]
NoOutput == [fn |-> "none", thrown |-> FALSE, v |-> Undef]
ParserIdle ==
  /\ pin = NoInput
  /\ pout = NoOutput

\* The execute-command middleware with no call in progress.
NoMwCall == [pc |-> "idle", command |-> "", log |-> <<>>, outcome |-> "none"]
MwIdle == mw = [p \in Callers |-> NoMwCall]

SupInit ==
  /\ client = NoClient
  /\ state = FALSE
  /\ restartCount = 0
  /\ lib = [c \in Clients |-> "Stopped"]
  /\ created = 0
  /\ pending = {}
  /\ inflight = 0
  /\ last = Ev("init", NoClient)
  /\ closedRun = 0
  /\ resetFrom = -1

(* startServer: up to and including the call of this._client.start().      *)
(* exe: whether the sqls binary is at the probed path.  method is the      *)
(* entry point: restartServer delegates here when no client is held, and   *)
(* then returns or throws as startServer does.                             *)
Outcome(method, o) == {<<"startServer", o>>, <<method, o>>}

StartBody(exe, method) ==
  IF AlreadyStarted(state)
  THEN /\ last' = [Ev(method, client) EXCEPT !.results = Outcome(method, "noop")]
       /\ UNCHANGED <<client, state, restartCount, lib, created, pending,
                      inflight, closedRun, resetFrom>>
  ELSE IF NeedsClient(client) /\ ExecutableCheck(exe).throws
  THEN /\ created' = IF ExecutableCheck(exe).newClient THEN created + 1 ELSE created
       /\ created' <= MaxClients
       /\ last' = [Ev(method, NoClient) EXCEPT
                     !.results = Outcome(method, "ExecutableMissing"),
                     !.shown = ExecutableCheck(exe).shown,
                     !.newClient = ExecutableCheck(exe).newClient]
       /\ UNCHANGED <<client, state, restartCount, lib, pending, inflight,
                      closedRun, resetFrom>>
  ELSE LET fresh == NeedsClient(client)
           c == IF fresh THEN created + 1 ELSE client
           e == [Ev(method, c) EXCEPT !.newClient = fresh, !.libStart = TRUE]
       IN /\ c \in Clients
          /\ client' = c
          /\ created' = IF fresh THEN created + 1 ELSE created
          /\ UNCHANGED inflight
          /\ CASE lib[c] = "Stopped" ->
                    \* the library spawns the process; the call awaits
                    /\ lib' = [lib EXCEPT ![c] = "Starting"]
                    /\ pending' = pending \cup {<<"start", c>>}
                    /\ last' = e
                    /\ UNCHANGED <<state, restartCount, closedRun, resetFrom>>
               [] lib[c] = "Starting" ->
                    \* the library hands out the promise of the start in flight
                    /\ pending' = pending \cup {<<"start", c>>}
                    /\ last' = e
                    /\ UNCHANGED <<lib, state, restartCount, closedRun, resetFrom>>
               [] lib[c] = "Running" ->
                    \* already up (automatic restart): resolves at once
                    /\ state' = Started(restartCount).state
                    /\ restartCount' = Started(restartCount).restartCount
                    /\ resetFrom' = ResetOf(restartCount)
                    /\ closedRun' = 0
                    /\ last' = [e EXCEPT !.results = Outcome(method, "ok")]
                    /\ UNCHANGED <<lib, pending>>
               [] lib[c] = "Stopping" ->
                    \* the library refuses to start a client that is stopping
                    /\ state' = StartFailed(state).state
                    /\ last' = [e EXCEPT
                                  !.results = Outcome(method, StartFailed(state).error),
                                  !.shown = StartFailed(state).shown]
                    /\ UNCHANGED <<lib, pending, restartCount, closedRun, resetFrom>>

StartServer ==
  \E exe \in BOOLEAN : StartBody(exe, "startServer")

(* stopServer: up to and including the call of this._client.stop().        *)
StopServer ==
  IF NotStarted(state, client)
  THEN /\ last' = [Ev("stopServer", client) EXCEPT !.results = {<<"stopServer", "noop">>}]
       /\ UNCHANGED <<client, state, restartCount, lib, created, pending,
                      inflight, closedRun, resetFrom>>
  ELSE LET c == client IN
       /\ UNCHANGED <<restartCount, created, inflight, closedRun, resetFrom>>
       /\ CASE lib[c] = "Running" ->
                 \* shutdown request sent; the call awaits
                 /\ lib' = [lib EXCEPT ![c] = "Stopping"]
                 /\ pending' = pending \cup {<<"stop", c>>}
                 /\ last' = Ev("stopServer", c)
                 /\ UNCHANGED <<client, state>>
            [] lib[c] = "Stopping" ->
                 \* joins the stop in flight
                 /\ pending' = pending \cup {<<"stop", c>>}
                 /\ last' = Ev("stopServer", c)
                 /\ UNCHANGED <<client, state, lib>>
            [] lib[c] = "Stopped" ->
                 \* nothing to stop: resolves at once, the finally block runs
                 /\ state' = Stopped(client).state
                 /\ client' = Stopped(client).client
                 /\ last' = [Ev("stopServer", c) EXCEPT !.results = {<<"stopServer", "ok">>}]
                 /\ UNCHANGED <<lib, pending>>
            [] lib[c] = "Starting" ->
                 \* the library refuses to stop a client that is not running:
                 \* stop() throws, the finally block runs, the error propagates
                 /\ state' = Stopped(client).state
                 /\ client' = Stopped(client).client
                 /\ last' = [Ev("stopServer", c) EXCEPT
                               !.results = {<<"stopServer", "StopFailed">>}]
                 /\ UNCHANGED <<lib, pending>>

(* restartServer: up to and including the call of this._client.restart(),  *)
(* which the library runs as stop() followed by start().                   *)
RestartServer ==
  \E exe \in BOOLEAN :
    IF client = NoClient
    THEN StartBody(exe, "restartServer")
    ELSE LET c == client IN
         /\ UNCHANGED <<client, restartCount, created, inflight, closedRun, resetFrom>>
         /\ CASE lib[c] = "Running" ->
                   /\ lib' = [lib EXCEPT ![c] = "Stopping"]
                   /\ pending' = pending \cup {<<"restartStop", c>>}
                   /\ last' = Ev("restartServer", c)
                   /\ UNCHANGED state
              [] lib[c] = "Stopping" ->
                   /\ pending' = pending \cup {<<"restartStop", c>>}
                   /\ last' = Ev("restartServer", c)
                   /\ UNCHANGED <<state, lib>>
              [] lib[c] = "Stopped" ->
                   \* stop() resolves at once, start() spawns the process
                   /\ lib' = [lib EXCEPT ![c] = "Starting"]
                   /\ pending' = pending \cup {<<"restartStart", c>>}
                   /\ last' = Ev("restartServer", c)
                   /\ UNCHANGED state
              [] lib[c] = "Starting" ->
                   \* stop() throws: the catch block runs
                   /\ state' = RestartFailed(state).state
                   /\ last' = [Ev("restartServer", c) EXCEPT
                                 !.results = {<<"restartServer", RestartFailed(state).error>>},
                                 !.shown = RestartFailed(state).shown]
                   /\ UNCHANGED <<lib, pending>>

(* The handshake of client c succeeds: every start()/restart() promise of  *)
(* c resolves and the awaiting methods run to their end.  A start the      *)
(* library made itself (automatic restart) has no method awaiting it.      *)
HandshakeOk(c) ==
  /\ lib[c] = "Starting"
  /\ lib' = [lib EXCEPT ![c] = "Running"]
  /\ LET s == <<"start", c>> \in pending
         r == <<"restartStart", c>> \in pending
     IN /\ pending' = pending \ {<<"start", c>>, <<"restartStart", c>>}
        /\ state' = IF s THEN Started(restartCount).state
                    ELSE IF r THEN Restarted(state, restartCount).state ELSE state
        /\ restartCount' = IF s THEN Started(restartCount).restartCount
                           ELSE IF r THEN Restarted(state, restartCount).restartCount
                           ELSE restartCount
        /\ resetFrom' = IF s THEN ResetOf(restartCount) ELSE resetFrom
        /\ closedRun' = IF s THEN 0 ELSE closedRun
        /\ last' = [Ev("handshakeOk", c) EXCEPT
                      !.results = (IF s THEN {<<"startServer", "ok">>} ELSE {})
                             \cup (IF r THEN {<<"restartServer", "ok">>} ELSE {})]
  /\ UNCHANGED <<client, created, inflight>>

(* The handshake of client c fails: the promises reject, the catch blocks  *)
(* of the awaiting methods run.                                            *)
HandshakeFail(c) ==
  /\ lib[c] = "Starting"
  /\ lib' = [lib EXCEPT ![c] = "Stopped"]
  /\ LET s == <<"start", c>> \in pending
         r == <<"restartStart", c>> \in pending
     IN /\ pending' = pending \ {<<"start", c>>, <<"restartStart", c>>}
        /\ state' = IF r THEN RestartFailed(state).state
                    ELSE IF s THEN StartFailed(state).state ELSE state
        /\ last' = [Ev("handshakeFail", c) EXCEPT
                      !.results = (IF s THEN {<<"startServer", StartFailed(state).error>>} ELSE {})
                             \cup (IF r THEN {<<"restartServer", RestartFailed(state).error>>} ELSE {}),
                      !.shown = (s /\ StartFailed(state).shown)
                                \/ (r /\ RestartFailed(state).shown)]
  /\ UNCHANGED <<client, restartCount, created, inflight, closedRun, resetFrom>>

(* The stop of client c completes (ok) or fails (~ok, e.g. the shutdown    *)
(* request times out).  stopServer's finally block runs either way; a      *)
(* restart() goes on to start() after a completed stop and rejects after a *)
(* failed one.                                                             *)
LibStopDone(c, ok) ==
  /\ lib[c] = "Stopping"
  /\ LET s == <<"stop", c>> \in pending
         r == <<"restartStop", c>> \in pending
     IN /\ lib' = [lib EXCEPT ![c] = IF r /\ ok THEN "Starting" ELSE "Stopped"]
        /\ pending' = (pending \ {<<"stop", c>>, <<"restartStop", c>>})
                        \cup (IF r /\ ok THEN {<<"restartStart", c>>} ELSE {})
        /\ state' = IF s THEN Stopped(client).state
                    ELSE IF r /\ ~ok THEN RestartFailed(state).state ELSE state
        /\ client' = IF s THEN Stopped(client).client ELSE client
        /\ last' = [Ev(IF ok THEN "stopDone" ELSE "stopFail", c) EXCEPT
                      !.results = (IF s THEN {<<"stopServer", IF ok THEN "ok" ELSE "StopFailed">>}
                                        ELSE {})
                             \cup (IF r /\ ~ok
                                     THEN {<<"restartServer", RestartFailed(state).error>>}
                                     ELSE {})]
  /\ UNCHANGED <<restartCount, created, inflight, closedRun, resetFrom>>

LibStop ==
  \E c \in Clients, ok \in BOOLEAN : LibStopDone(c, ok)

Handshake ==
  \E c \in Clients : HandshakeOk(c) \/ HandshakeFail(c)

(* The connection of a running client closes unexpectedly: the library     *)
(* calls errorHandler.closed() and acts on its answer (Restart: it starts  *)
(* the client again itself; DoNotRestart: the client stays stopped).       *)
ConnectionClosed ==
  \E c \in Clients :
    /\ lib[c] = "Running"
    /\ LET h == ClosedHandler(restartCount) IN
       /\ state' = FALSE
       /\ restartCount' = h.restartCount
       /\ lib' = [lib EXCEPT ![c] = IF h.action = "Restart" THEN "Starting" ELSE "Stopped"]
       /\ closedRun' = Sat(closedRun + 1)
       /\ last' = [Ev("closed", c) EXCEPT !.action = h.action, !.shown = h.shown]
    /\ UNCHANGED <<client, created, pending, inflight, resetFrom>>

(* The transport of a running client reports its n-th error: the library   *)
(* calls errorHandler.error(error, message, n) and, on Shutdown, stops the *)
(* client (a stop the library makes does not call errorHandler.closed).    *)
TransportError ==
  \E c \in Clients, n \in 0..MaxErrorCount :
    /\ lib[c] = "Running"
    /\ LET h == ErrorHandler(n) IN
       /\ lib' = [lib EXCEPT ![c] = IF h.action = "Shutdown" THEN "Stopping" ELSE "Running"]
       /\ last' = [Ev("error", c) EXCEPT !.action = h.action, !.shown = h.shown,
                                         !.count = n]
    /\ UNCHANGED <<client, state, restartCount, created, pending, inflight,
                   closedRun, resetFrom>>

(* executeServerCommand: the guard, then forwardCommandToServer (same      *)
(* guard, same turn) and client.sendRequest, which the call awaits.        *)
ExecuteServerCommand ==
  IF NotAvailable(client, state)
  THEN /\ last' = [Ev("executeServerCommand", client) EXCEPT
                     !.results = {<<"executeServerCommand", "ServerNotRunning">>}]
       /\ UNCHANGED <<client, state, restartCount, lib, created, pending,
                      inflight, closedRun, resetFrom>>
  ELSE /\ inflight < MaxInflight
       /\ inflight' = inflight + 1
       /\ last' = [Ev("executeServerCommand", client) EXCEPT !.sent = TRUE]
       /\ UNCHANGED <<client, state, restartCount, lib, created, pending,
                      closedRun, resetFrom>>

(* The reply to a request in flight arrives (ok) or the request fails.     *)
CommandSettled ==
  \E ok \in BOOLEAN :
    /\ inflight > 0
    /\ inflight' = inflight - 1
    /\ state' = IF ok THEN state ELSE ExecuteFailed(state).state
    /\ last' = [Ev("commandSettled", client) EXCEPT
                  !.results = {<<"executeServerCommand",
                                 IF ok THEN "ok" ELSE ExecuteFailed(state).error>>},
                  !.shown = ~ok /\ ExecuteFailed(state).shown]
    /\ UNCHANGED <<client, restartCount, lib, created, pending,
                   closedRun, resetFrom>>

(* didChangeConfiguration(params): nothing unless isServerRunning(), else  *)
(* the notification is sent with the params as given.                      *)
DidChangeConfiguration ==
  /\ last' = [Ev("didChangeConfiguration", client) EXCEPT
                !.notified = IsServerRunning(state, client)]
  /\ UNCHANGED <<client, state, restartCount, lib, created, pending, inflight,
                 closedRun, resetFrom>>

(* The supervisor on its own: the other components stay as constructed.    *)
Init == SupInit /\ ParserIdle /\ InterceptorIdle /\ ListIdle /\ StoreIdle /\ MwIdle

Next ==
  \/ StartServer /\ UNCHANGED notSupVars
  \/ StopServer /\ UNCHANGED notSupVars
  \/ RestartServer /\ UNCHANGED notSupVars
  \/ Handshake /\ UNCHANGED notSupVars
  \/ LibStop /\ UNCHANGED notSupVars
  \/ ConnectionClosed /\ UNCHANGED notSupVars
  \/ TransportError /\ UNCHANGED notSupVars
  \/ ExecuteServerCommand /\ UNCHANGED notSupVars
  \/ CommandSettled /\ UNCHANGED notSupVars

Spec == Init /\ [][Next]_vars

(* The supervisor together with the callers that push configuration.       *)
NextPush ==
  \/ Next
  \/ DidChangeConfiguration /\ UNCHANGED notSupVars

SpecPush == Init /\ [][NextPush]_vars

TypeOK ==
  /\ client \in 0..MaxClients
  /\ state \in BOOLEAN
  /\ restartCount \in Nat
  /\ lib \in [Clients -> LibStates]
  /\ created \in 0..MaxClients
  /\ inflight \in 0..MaxInflight
----------------------------------------------------------------------------
(* Properties of the connection supervisor.                                *)

Returned(method, o) == <<method, o>> \in last.results

\* C1: after 5 consecutive unexpected closures with no successful start()
\* in between, a 6th closure is answered DoNotRestart and leaves the
\* supervisor not running (flag false, client stopped).
C1_SixthClosureDoesNotRestart ==
  (last.op = "closed" /\ closedRun > maxRestartAttempts) =>
     /\ last.action = "DoNotRestart"
     /\ state = FALSE
     /\ lib[last.c] = "Stopped"

C1_Witness ==
  /\ last.op = "closed"
  /\ closedRun = maxRestartAttempts + 1
  /\ last.action = "DoNotRestart"
  /\ ~state

\* C2: a successful start() leaves restartCount at 0, and the first closure
\* after a successful start is answered Restart, whatever restartCount was
\* before that start.
C2_StartResetsRestartBudget ==
  /\ Returned("startServer", "ok") => restartCount = 0
  /\ (last.op = "closed" /\ resetFrom >= 0 /\ closedRun = 1) =>
        (last.action = "Restart" /\ restartCount = 1)

C2_Witness ==
  /\ last.op = "closed"
  /\ resetFrom = maxRestartAttempts
  /\ closedRun = 1
  /\ last.action = "Restart"

\* C3: in every reachable state 0 <= restartCount <= maxRestartAttempts.
C3_RestartCountInRange ==
  restartCount \in 0..maxRestartAttempts

C3_Witness ==
  /\ restartCount = maxRestartAttempts
  /\ last.op = "closed"
  /\ last.action = "DoNotRestart"

StartInFlight == \E c \in Clients : <<"start", c>> \in pending

\* C4: a start() issued while the supervisor is Starting (an earlier start()
\* awaits the handshake) or Running returns at once as a no-op: it builds
\* no client and does not call the client's start again.
C4_StartWhileBusyIsNoOp ==
  [][(last'.op = "startServer" /\ (state \/ StartInFlight)) =>
        /\ last'.results = {<<"startServer", "noop">>}
        /\ ~last'.newClient
        /\ ~last'.libStart
        /\ pending' = pending]_vars

\* C5: executeCommand issued while the supervisor is not Running fails with
\* ServerNotRunning and sends nothing; a request is sent only when Running.
C5_ExecuteOnlyWhenRunning ==
  /\ (last.op = "executeServerCommand" /\ ~state) =>
        /\ ~last.sent
        /\ last.results = {<<"executeServerCommand", "ServerNotRunning">>}
  /\ last.sent => (state /\ client # NoClient)

C5_Witness ==
  /\ last.op = "executeServerCommand"
  /\ ~state
  /\ client # NoClient
  /\ lib[client] = "Running"
  /\ Returned("executeServerCommand", "ServerNotRunning")

\* C6: a closure while restartCount < 5 adds exactly 1 to restartCount and
\* requests a restart; once the handshake of that automatic restart
\* succeeds the supervisor is Running again and executeCommand is accepted
\* with no explicit start() or restartServer().
C6_AutoRestartRunsAgain ==
  [][/\ (last'.op = "closed" /\ restartCount < maxRestartAttempts) =>
           (restartCount' = restartCount + 1 /\ last'.action = "Restart")
     /\ (last'.op = "handshakeOk" /\ last'.results = {} /\ last'.c = client') =>
           (state' /\ ~NotAvailable(client', state'))]_vars

\* C7: with the executable absent start() fails with ExecutableMissing
\* before anything is spawned: the error is shown, the supervisor stays
\* stopped, holds no client, and nothing is started or scheduled.
C7_ExecutableMissingIsFatal ==
  [][Returned("startServer", "ExecutableMissing")' =>
        /\ last'.shown
        /\ ~last'.newClient
        /\ ~last'.libStart
        /\ state' = FALSE
        /\ client' = NoClient
        /\ UNCHANGED <<lib, pending, restartCount, created>>]_vars

C7_Witness ==
  /\ last.op = "startServer"
  /\ Returned("startServer", "ExecutableMissing")
  /\ last.shown
  /\ client = NoClient
  /\ ~state

\* C8: when the handshake fails during start(), start() ends with the
\* supervisor stopped, the failure shown to the user and the error thrown
\* to the caller.
C8_StartFailureStopsAndSurfaces ==
  Returned("startServer", "StartFailed") => (state = FALSE /\ last.shown)

C8_Witness ==
  /\ last.op = "handshakeFail"
  /\ Returned("startServer", "StartFailed")
  /\ last.shown
  /\ ~state

\* C9: stop() of a running supervisor ends stopped with the client released,
\* also when the stop request throws, and the error then reaches the caller.
C9_StopAlwaysReleases ==
  (Returned("stopServer", "ok") \/ Returned("stopServer", "StopFailed")) =>
     (state = FALSE /\ client = NoClient)

C9_Witness ==
  /\ last.op = "stopFail"
  /\ Returned("stopServer", "StopFailed")
  /\ ~state
  /\ client = NoClient

\* C10: while Running, a transport error with count <= 3 leaves the
\* supervisor Running (swallowed); one with count > 3 moves it to Stopped,
\* is shown to the user, and no automatic restart follows.
C10_TransportErrorEscalates ==
  [][(last'.op = "error" /\ state /\ last'.c = client) =>
        IF last'.count <= errorContinueLimit
          THEN state' /\ last'.action = "Continue" /\ ~last'.shown
          ELSE /\ ~state'
               /\ last'.shown
               /\ last'.action = "Shutdown"
               /\ lib'[last'.c] # "Starting"]_vars

\* C11: restartServer() on a supervisor that holds a client is carried out
\* whatever restartCount is (also at 5): when it succeeds the supervisor is
\* Running, when it fails the supervisor is Stopped and the error is thrown
\* to the caller.
C11_ManualRestartIgnoresBudget ==
  /\ Returned("restartServer", "ok") => state = TRUE
  /\ Returned("restartServer", "RestartFailed") => state = FALSE
  /\ (last.op = "restartServer" /\ last.c # NoClient /\ ~last.libStart) =>
        \/ <<"restartStop", last.c>> \in pending
        \/ <<"restartStart", last.c>> \in pending
        \/ Returned("restartServer", "RestartFailed")

C11_Witness ==
  /\ last.op = "handshakeOk"
  /\ last.results = {<<"restartServer", "ok">>}
  /\ restartCount = maxRestartAttempts
  /\ closedRun > maxRestartAttempts
  /\ state

----------------------------------------------------------------------------
(* The result normalizer (resultParser.ts), over JavaScript values.         *)

(* typeof v                                                                 *)
TypeOf(v) ==
  CASE v.t = "undefined" -> "undefined"
    [] v.t = "bool" -> "boolean"
    [] v.t = "num" -> "number"
    [] v.t = "bigint" -> "bigint"
    [] v.t = "str" -> "string"
    [] OTHER -> "object"

(* ToBoolean(v), the test an  if (v)  makes                                 *)
Truthy(v) ==
  CASE v.t \in {"undefined", "null"} -> FALSE
    [] v.t \in {"bool", "num", "bigint"} -> v.n # 0
    [] v.t = "str" -> v.s # ""
    [] OTHER -> TRUE

IsArray(v) == v.t = "arr"

Range(f) == {f[i] : i \in DOMAIN f}

(* k in v, for an object or an array v and a property name k                *)
In(k, v) == v.t \in {"obj", "cyclic"} /\ k \in Range(v.keys)

IndexOf(keys, k) == CHOOSE i \in DOMAIN keys : keys[i] = k

(* v.k : the property k of v, undefined when v has none                     *)
Get(v, k) ==
  IF v.t = "obj" /\ k \in Range(v.keys) THEN v.items[IndexOf(v.keys, k)]
  ELSE IF v.t = "cyclic" /\ k = "self" THEN v
  ELSE Undef

(* row[i] with a 0-based index i, for an array or an object row             *)
Index(row, i) ==
  IF row.t = "arr" /\ i + 1 \in DOMAIN row.items THEN row.items[i + 1] ELSE Undef

Digits == <<"0", "1", "2", "3", "4", "5", "6", "7", "8", "9">>

(* a property name that is an array index (one digit is all the model has) *)
IsIndexKey(k) == k \in Range(Digits)

InsertAt(q, i, e) == SubSeq(q, 1, i - 1) \o <<e>> \o SubSeq(q, i, Len(q))

(* o[k] = v : an existing key keeps its place; a new index key goes among  *)
(* the index keys in ascending order, ahead of the names; a new name goes  *)
(* last                                                                    *)
SetKey(o, k, v) ==
  IF k \in Range(o.keys)
  THEN [o EXCEPT !.items[IndexOf(o.keys, k)] = v]
  ELSE IF IsIndexKey(k)
  THEN LET at == 1 + Cardinality({i \in DOMAIN o.keys :
                     IsIndexKey(o.keys[i])
                     /\ IndexOf(Digits, o.keys[i]) < IndexOf(Digits, k)})
       IN [o EXCEPT !.keys = InsertAt(@, at, k), !.items = InsertAt(@, at, v)]
  ELSE [o EXCEPT !.keys = Append(@, k), !.items = Append(@, v)]

RECURSIVE NumStr(_)
NumStr(n) ==
  IF n < 0 THEN "-" \o NumStr(-n)
  ELSE IF n < 10 THEN Digits[n + 1]
  ELSE NumStr(n \div 10) \o Digits[(n % 10) + 1]

(* String(v)                                                                *)
RECURSIVE StringOf(_)
RECURSIVE JoinToString(_)
JoinToString(items) ==
  IF items = <<>> THEN ""
  ELSE LET e == items[1]
           head == IF e.t \in {"null", "undefined"} THEN "" ELSE StringOf(e)
       IN IF Len(items) = 1 THEN head
          ELSE head \o "," \o JoinToString(Tail(items))
StringOf(v) ==
  CASE v.t = "undefined" -> "undefined"
    [] v.t = "null" -> "null"
    [] v.t = "bool" -> IF v.n = 1 THEN "true" ELSE "false"
    [] v.t \in {"num", "bigint"} -> NumStr(v.n)
    [] v.t = "str" -> v.s
    [] v.t = "arr" -> JoinToString(v.items)
    [] OTHER -> "[object Object]"

Thrown == [thrown |-> TRUE, v |-> Undef]
Ret(v) == [thrown |-> FALSE, v |-> v]

(* JSON.stringify(v) throws a TypeError on a BigInt and on a cycle          *)
RECURSIVE StringifyThrows(_)
StringifyThrows(v) ==
  \/ v.t \in {"bigint", "cyclic"}
  \/ /\ v.t \in {"arr", "obj"}
     /\ \E i \in DOMAIN v.items : StringifyThrows(v.items[i])

RECURSIVE JsonText(_)
RECURSIVE JsonElems(_)
RECURSIVE JsonMembers(_, _, _)
JsonElems(items) ==
  IF items = <<>> THEN ""
  ELSE LET e == items[1]
           head == IF e.t = "undefined" THEN "null" ELSE JsonText(e)
       IN IF Len(items) = 1 THEN head
          ELSE head \o "," \o JsonElems(Tail(items))
JsonMembers(keys, items, first) ==
  IF keys = <<>> THEN ""
  ELSE IF items[1].t = "undefined"
       THEN JsonMembers(Tail(keys), Tail(items), first)
       ELSE (IF first THEN "" ELSE ",")
            \o "\"" \o keys[1] \o "\":" \o JsonText(items[1])
            \o JsonMembers(Tail(keys), Tail(items), FALSE)
JsonText(v) ==
  CASE v.t = "null" -> "null"
    [] v.t = "bool" -> IF v.n = 1 THEN "true" ELSE "false"
    [] v.t = "num" -> NumStr(v.n)
    [] v.t = "str" -> "\"" \o v.s \o "\""
    [] v.t = "arr" -> "[" \o JsonElems(v.items) \o "]"
    [] OTHER -> "{" \o JsonMembers(v.keys, v.items, TRUE) \o "}"

(* JSON.stringify(v): a string, or undefined for undefined                  *)
JsonStringify(v) ==
  IF StringifyThrows(v) THEN Thrown
  ELSE IF v.t = "undefined" THEN Ret(Undef)
  ELSE Ret(Str(JsonText(v)))

(* resultParser.ts:44-46, the cell values that stand for SQL NULL           *)
NormalizeCellKeepNil(v) ==
  IF v = Str("null") \/ v.t = "null" \/ v.t = "undefined" THEN Null ELSE v

NormalizeCell(v) ==
  IF v = Str("null") \/ v.t = "null" \/ v.t = "undefined" \/ v = Str("<nil>")
  THEN Null ELSE v

(* resultParser.ts:16-20, the answer to a mutation acknowledgement          *)
QueryResult(columns, rows, rowsAffected) ==
  Obj(<<"columns", "rows", "rowsAffected">>, <<columns, rows, rowsAffected>>)

Column(name) == Obj(<<"name">>, <<name>>)

RowsAffectedResultCountsRows(n) ==
  QueryResult(Arr(<<Column(Str("rows_affected"))>>),
              Arr(<<Obj(<<"rows_affected">>, <<n>>)>>), Num(1))

RowsAffectedResult(n) ==
  QueryResult(Arr(<<Column(Str("rows_affected"))>>),
              Arr(<<Obj(<<"rows_affected">>, <<n>>)>>), n)

(* resultParser.ts:40-49, one row zipped with the column names; the        *)
(* property key of a column name is String(name)                           *)
RECURSIVE ZipRow(_, _, _, _)
ZipRow(columnNames, row, index, rowObj) ==
  IF index >= Len(columnNames) THEN rowObj
  ELSE ZipRow(columnNames, row, index + 1,
              SetKey(rowObj, StringOf(columnNames[index + 1]),
                     NormalizeCell(Index(row, index))))

(* row[index] throws a TypeError when row is null or undefined              *)
RowThrows(columnNames, row) ==
  row.t \in {"null", "undefined"} /\ Len(columnNames) > 0

parseJsonResult(jsonData) ==
  IF ~Truthy(jsonData) \/ TypeOf(jsonData) # "object" THEN Thrown
  ELSE IF In("rows_affected", jsonData)
          /\ TypeOf(Get(jsonData, "rows_affected")) = "number"
  THEN Ret(RowsAffectedResult(Get(jsonData, "rows_affected")))
  ELSE IF In("columns", jsonData) /\ In("rows", jsonData)
  THEN LET columnNames == Get(jsonData, "columns")
           rows == Get(jsonData, "rows")
       IN IF ~IsArray(columnNames) \/ ~IsArray(rows) THEN Thrown
          ELSE IF Len(columnNames.items) = 0 THEN Thrown
          ELSE IF \E i \in DOMAIN rows.items :
                     RowThrows(columnNames.items, rows.items[i])
          THEN Thrown
          ELSE Ret(QueryResult(
                 Arr([i \in DOMAIN columnNames.items |->
                        Column(Str(StringOf(columnNames.items[i])))]),
                 Arr([i \in DOMAIN rows.items |->
                        ZipRow(columnNames.items, rows.items[i], 0,
                               Obj(<<>>, <<>>))]),
                 Num(Len(rows.items))))
  ELSE Thrown

(* ---- the raw results handed to the normalizer ----                       *)
MaxRows == 2

RECURSIVE SeqsUpTo(_, _)
SeqsUpTo(S, n) ==
  IF n = 0 THEN {<<>>}
  ELSE LET shorter == SeqsUpTo(S, n - 1)
       IN shorter \cup {Append(q, e) : q \in {r \in shorter : Len(r) = n - 1}, e \in S}

ColumnChoices ==
  { <<>>, <<Str("a")>>, <<Str("a"), Str("b")>>, <<Str("a"), Str("a")>>,
    <<Column(Str("a"))>> }

CellValues == {Num(1), Str("null"), Str("<nil>"), Null}

PositionalRows == {Arr(r) : r \in {<<>>} \cup ([1..1 -> CellValues] \cup [1..2 -> CellValues])}

ObjectRows ==
  { Obj(<<>>, <<>>), Obj(<<"a">>, <<Num(1)>>), Obj(<<"a", "b">>, <<Null, Str("x")>>) }

(* an object carrying columns and rows, and rows_affected unless it is     *)
(* undefined                                                                *)
Shaped(columns, rows, ra) ==
  IF ra.t = "undefined" THEN Obj(<<"columns", "rows">>, <<columns, rows>>)
  ELSE Obj(<<"rows_affected", "columns", "rows">>, <<ra, columns, rows>>)

PositionalInputs ==
  { Shaped(Arr(c), Arr(r), ra) :
      c \in ColumnChoices, r \in SeqsUpTo(PositionalRows, MaxRows),
      ra \in {Undef, Num(2)} }

ObjectRowInputs ==
  { Shaped(Arr(c), Arr(r), ra) :
      c \in ColumnChoices, r \in SeqsUpTo(ObjectRows, MaxRows),
      ra \in {Undef, Num(0), Num(2), Str("3")} }

OddInputs ==
  { Undef, Null, Bool(TRUE), Bool(FALSE), Num(0), Num(7), BigInt(10), Cyclic,
    Arr(<<>>), Arr(<<Null>>), Arr(<<Num(1), Num(2)>>),
    Arr(<<Obj(<<"a">>, <<Num(1)>>), Obj(<<"b">>, <<Num(2)>>)>>),
    Obj(<<>>, <<>>),
    Obj(<<"rows_affected">>, <<Num(0)>>),
    Obj(<<"rows_affected">>, <<Num(3)>>),
    Obj(<<"rows_affected">>, <<Str("3")>>),
    Obj(<<"rows_affected">>, <<BigInt(3)>>),
    Obj(<<"columns">>, <<Arr(<<Str("a")>>)>>),
    Shaped(Num(1), Num(2), Undef),
    Shaped(Str("a"), Arr(<<Arr(<<Num(1)>>)>>), Undef),
    Shaped(Arr(<<Str("a")>>), Str("x"), Undef),
    Shaped(Arr(<<Str("a")>>), Arr(<<Null>>), Undef),
    Shaped(Arr(<<Str("a")>>), Arr(<<Num(5)>>), Undef),
    Shaped(Arr(<<Str("a")>>), Arr(<<Arr(<<Num(1)>>), Null>>), Undef),
    Shaped(Arr(<<Str("a")>>), Arr(<<Arr(<<Num(1)>>), Obj(<<"a">>, <<Num(2)>>)>>), Undef),
    Shaped(Arr(<<Str("a")>>), Arr(<<Obj(<<"a">>, <<Num(2)>>), Arr(<<Num(1)>>)>>), Undef),
    Shaped(Arr(<<Str("a")>>), Arr(<<Arr(<<BigInt(1)>>)>>), Undef),
    Shaped(Arr(<<Str("a")>>), Arr(<<Arr(<<Num(1)>>)>>), Str("3")) }

(* The JSON texts the server can answer with are the texts of these values; *)
(* JSON.parse gives the value back and throws on every other string here.  *)
JsonDomain ==
  { Null, Num(7), Str("x"), Arr(<<>>), Arr(<<Num(1), Num(2)>>), Obj(<<>>, <<>>),
    Obj(<<"rows_affected">>, <<Num(0)>>),
    Obj(<<"rows_affected">>, <<Num(3)>>),
    Obj(<<"rows_affected">>, <<Str("3")>>) }
  \cup { v \in PositionalInputs \cup ObjectRowInputs :
           /\ Len(Get(v, "rows").items) <= 1
           /\ Len(Get(v, "columns").items) <= 1 }

NotJson == { "", "hello", "{", "{\"columns\":[\"a\"],\"rows\":[[1]]", "+--+\n| A |\n+--+" }

StringInputs == {Str(JsonText(v)) : v \in JsonDomain} \cup {Str(t) : t \in NotJson}

JsonParse(text) ==
  IF \E v \in JsonDomain : JsonText(v) = text
  THEN Ret(CHOOSE v \in JsonDomain : JsonText(v) = text)
  ELSE Thrown

JsInputs == PositionalInputs \cup ObjectRowInputs \cup OddInputs \cup StringInputs

(* resultParser.ts:99-102 and 116-119                                      *)
SingleResult(v) ==
  Obj(<<"columns", "rows">>,
      <<Arr(<<Column(Str("result"))>>), Arr(<<Obj(<<"result">>, <<v>>)>>)>>)

parseResultSmart(result) ==
  LET rows == Get(result, "rows")
      nonEmpty == /\ Truthy(result) /\ TypeOf(result) = "object"
                  /\ Truthy(Get(result, "columns")) /\ Truthy(rows)
                  /\ IsArray(rows) /\ Len(rows.items) > 0
      first == rows.items[1]
  IN IF nonEmpty /\ IsArray(first) /\ ~parseJsonResult(result).thrown
     THEN parseJsonResult(result)
     ELSE IF nonEmpty /\ TypeOf(first) = "object" /\ ~IsArray(first)
     THEN Ret(result)
     ELSE IF TypeOf(result) = "string"
     THEN LET jsonData == JsonParse(result.s)
          IN IF jsonData.thrown \/ parseJsonResult(jsonData.v).thrown
             THEN Ret(SingleResult(result))
             ELSE parseJsonResult(jsonData.v)
     ELSE IF TypeOf(result) = "object" /\ result.t # "null"
             /\ ~parseJsonResult(result).thrown
     THEN parseJsonResult(result)
     ELSE LET text == JsonStringify(result)
          IN IF text.thrown THEN Thrown ELSE Ret(SingleResult(text.v))

(* ---- the normalizer applied to one raw result ----                       *)
Applied(fn, r) == [fn |-> fn, thrown |-> r.thrown, v |-> r.v]

ParserInit ==
  /\ pin \in {[NoInput EXCEPT !.kind = "js", !.v = v] : v \in JsInputs}
  /\ pout = NoOutput

ParseJson ==
  /\ pin.kind = "js"
  /\ pout' = Applied("parseJsonResult", parseJsonResult(pin.v))
  /\ UNCHANGED pin

ParseSmart ==
  /\ pin.kind = "js"
  /\ pout' = Applied("parseResultSmart", parseResultSmart(pin.v))
  /\ UNCHANGED pin

InitParser == SupInit /\ ParserInit /\ InterceptorIdle /\ ListIdle /\ StoreIdle /\ MwIdle

NextParser ==
  \/ ParseJson /\ UNCHANGED notParserVars
  \/ ParseSmart /\ UNCHANGED notParserVars

SpecParser == InitParser /\ [][NextParser]_vars

----------------------------------------------------------------------------
(* The ASCII-table normalizer (the resultParser that resultParser.test.ts   *)
(* imports).  A text is the sequence of its characters.                    *)

Letters ==
  { "A", "B", "C", "D", "E", "F", "G", "H", "I", "J", "K", "L", "M",
    "N", "O", "P", "Q", "R", "S", "T", "U", "V", "W", "X", "Y", "Z",
    "a", "b", "c", "d", "e", "f", "g", "h", "i", "j", "k", "l", "m",
    "n", "o", "p", "q", "r", "s", "t", "u", "v", "w", "x", "y", "z" }

WhiteSpace == {" ", "\t", "\n", "\r"}

RECURSIVE FromChars(_)
FromChars(cs) == IF cs = <<>> THEN "" ELSE cs[1] \o FromChars(Tail(cs))

(* text.split(sep): the pieces between the separators, at least one        *)
RECURSIVE SplitFrom(_, _, _)
SplitFrom(cs, sep, piece) ==
  IF cs = <<>> THEN <<piece>>
  ELSE IF cs[1] = sep THEN <<piece>> \o SplitFrom(Tail(cs), sep, <<>>)
  ELSE SplitFrom(Tail(cs), sep, Append(piece, cs[1]))
Split(cs, sep) == SplitFrom(cs, sep, <<>>)

RECURSIVE TrimStart(_)
TrimStart(cs) ==
  IF cs # <<>> /\ cs[1] \in WhiteSpace THEN TrimStart(Tail(cs)) ELSE cs
RECURSIVE TrimEnd(_)
TrimEnd(cs) ==
  IF cs # <<>> /\ cs[Len(cs)] \in WhiteSpace
  THEN TrimEnd(SubSeq(cs, 1, Len(cs) - 1)) ELSE cs
Trim(cs) == TrimEnd(TrimStart(cs))

StartsWith(cs, ch) == cs # <<>> /\ cs[1] = ch

(* /[A-Za-z]/.test(line)                                                    *)
HasLetter(cs) == \E i \in DOMAIN cs : cs[i] \in Letters

(* text.includes(pattern)                                                   *)
Includes(cs, pattern) ==
  \E i \in 0..(Len(cs) - Len(pattern)) :
     SubSeq(cs, i + 1, i + Len(pattern)) = pattern

(* pieces.slice(1, -1)                                                      *)
Inner(pieces) == SubSeq(pieces, 2, Len(pieces) - 1)

RECURSIVE NonBlank(_)
NonBlank(lines) ==
  IF lines = <<>> THEN <<>>
  ELSE IF Trim(lines[1]) # <<>> THEN <<lines[1]>> \o NonBlank(Tail(lines))
  ELSE NonBlank(Tail(lines))

(* part_003:137, (col) => col.length > 0                                    *)
KeepsAnyColumn(col) == TRUE
KeepsColumn(col) == Len(col) > 0

RECURSIVE NonEmpty(_)
NonEmpty(names) ==
  IF names = <<>> THEN <<>>
  ELSE IF KeepsColumn(names[1]) THEN <<names[1]>> \o NonEmpty(Tail(names))
  ELSE NonEmpty(Tail(names))

TrimAll(pieces) == [i \in DOMAIN pieces |-> Trim(pieces[i])]

(* part_003:117-124, the first line that starts with | and has a letter;   *)
(* 0 stands for the code's -1                                              *)
HeaderLine(lines) ==
  IF \E i \in DOMAIN lines : StartsWith(lines[i], "|") /\ HasLetter(lines[i])
  THEN CHOOSE i \in DOMAIN lines :
         /\ StartsWith(lines[i], "|") /\ HasLetter(lines[i])
         /\ \A j \in 1..(i - 1) : ~(StartsWith(lines[j], "|") /\ HasLetter(lines[j]))
  ELSE 0

(* part_003:171-174, the cell texts that stand for SQL NULL                 *)
TableCellKeepEmpty(value) ==
  IF value = <<"<", "n", "i", "l", ">">> \/ value = <<"N", "U", "L", "L">>
  THEN Null ELSE Str(FromChars(value))

TableCell(value) ==
  IF value = <<"<", "n", "i", "l", ">">> \/ value = <<"N", "U", "L", "L">>
     \/ value = <<>>
  THEN Null ELSE Str(FromChars(value))

(* part_003:168-178, one data row bound to the column names                 *)
RECURSIVE TableRow(_, _, _, _)
TableRow(columnNames, values, index, row) ==
  IF index >= Len(columnNames) THEN row
  ELSE TableRow(columnNames, values, index + 1,
                SetKey(row, FromChars(columnNames[index + 1]),
                       TableCell(values[index + 1])))

(* part_003:159, a summary line ends the scan                              *)
NeverStopsScan(line) == FALSE
StopsScan(line) == ~StartsWith(line, "|")

(* part_003:169, values.length === columnNames.length                      *)
RowFitsOrLonger(values, columnNames) == Len(values) >= Len(columnNames)
RowFits(values, columnNames) == Len(values) = Len(columnNames)

(* part_003:149-182, the lines after the header                             *)
RECURSIVE DataRows(_, _, _)
DataRows(lines, i, columnNames) ==
  IF i > Len(lines) THEN <<>>
  ELSE IF StartsWith(lines[i], "+") THEN DataRows(lines, i + 1, columnNames)
  ELSE IF StopsScan(lines[i]) THEN <<>>
  ELSE LET values == TrimAll(Inner(Split(lines[i], "|")))
       IN (IF RowFits(values, columnNames)
           THEN <<TableRow(columnNames, values, 0, Obj(<<>>, <<>>))>>
           ELSE <<>>)
          \o DataRows(lines, i + 1, columnNames)

parseAsciiTableResult(asciiTable) ==
  IF asciiTable = <<>> THEN Thrown
  ELSE LET lines == NonBlank(Split(asciiTable, "\n"))
           headerLineIndex == HeaderLine(lines)
       IN IF headerLineIndex = 0 THEN Thrown
          ELSE LET columnNames ==
                     NonEmpty(TrimAll(Inner(Split(lines[headerLineIndex], "|"))))
                   rows == DataRows(lines, headerLineIndex + 1, columnNames)
               IN IF Len(columnNames) = 0 THEN Thrown
                  ELSE Ret(QueryResult(
                         Arr([i \in DOMAIN columnNames |->
                                Column(Str(FromChars(columnNames[i])))]),
                         Arr(rows), Num(Len(rows))))

(* Object.keys(v) of an object or an array                                  *)
ObjectKeys(v) ==
  IF v.t = "arr" THEN [i \in DOMAIN v.items |-> NumStr(i - 1)] ELSE v.keys

(* part_003:197-235, parseResultSmart of that file; cs is the text of a    *)
(* string result                                                           *)
parseResultSmartAscii(result, cs) ==
  IF /\ Truthy(result) /\ TypeOf(result) = "object"
     /\ Truthy(Get(result, "columns")) /\ Truthy(Get(result, "rows"))
  THEN Ret(result)
  ELSE IF /\ TypeOf(result) = "string"
          /\ Includes(cs, <<"+", "-", "-">>) /\ Includes(cs, <<"|">>)
  THEN IF parseAsciiTableResult(cs).thrown THEN Ret(SingleResult(result))
       ELSE parseAsciiTableResult(cs)
  ELSE IF /\ IsArray(result) /\ Len(result.items) > 0
          /\ TypeOf(result.items[1]) = "object"
  THEN IF result.items[1].t = "null" THEN Thrown
       ELSE LET keys == ObjectKeys(result.items[1])
            IN Ret(QueryResult(Arr([i \in DOMAIN keys |-> Column(Str(keys[i]))]),
                               result, Num(Len(result.items))))
  ELSE LET text == JsonStringify(result)
       IN IF text.thrown THEN Thrown ELSE Ret(SingleResult(text.v))

(* ---- the tables handed to the table normalizer ----                      *)
MaxTableRows == 2

HeaderChoices ==
  { <<<<"I", "D">>>>, <<<<"1">>>>,
    <<<<"I", "D">>, <<"N">>>>, <<<<"1">>, <<"N">>>>, <<<<"N">>, <<"N">>>> }

CellTexts == { <<"x">>, <<"<", "n", "i", "l", ">">>, <<"N", "U", "L", "L">>, <<>> }

RECURSIVE Border(_)
Border(n) == IF n = 0 THEN <<"+">> ELSE Border(n - 1) \o <<"-", "-", "-", "+">>

(* | c1 | c2 |  with one blank on each side of a cell                       *)
RECURSIVE TableLine(_)
TableLine(cells) ==
  IF cells = <<>> THEN <<"|">>
  ELSE <<"|", " ">> \o cells[1] \o <<" ">> \o TableLine(Tail(cells))

RECURSIVE TableLines(_)
TableLines(rows) ==
  IF rows = <<>> THEN <<>>
  ELSE TableLine(rows[1]) \o <<"\n">> \o TableLines(Tail(rows))

Footer == <<"\n", "r", "o", "w", "s", " ", "i", "n", " ", "s", "e", "t">>

(* the text the server prints for a result set                              *)
Render(names, rows, footer) ==
  Border(Len(names)) \o <<"\n">> \o TableLine(names) \o <<"\n">>
  \o Border(Len(names)) \o <<"\n">> \o TableLines(rows) \o Border(Len(names))
  \o (IF footer THEN Footer ELSE <<>>)

TextInput(cs, names, rows) ==
  [kind |-> "text", v |-> Str(FromChars(cs)), cs |-> cs, names |-> names, cells |-> rows]

WellFormedTables ==
  { TextInput(Render(names, rows, footer), names, rows) :
      names \in HeaderChoices,
      rows \in UNION { SeqsUpTo([1..n -> CellTexts], MaxTableRows) : n \in 1..2 },
      footer \in BOOLEAN }

(* texts that are no table, or whose rows do not fit the header            *)
OtherTexts ==
  { <<>>, <<"h", "i">>, <<"+", "-", "-", "+">>, <<"+", "-", "-", "+", "\n", "|">>,
    Render(<<<<"I", "D">>>>, <<<<<<"x">>, <<"x">>>>, <<<<"x">>>>>>, FALSE),
    Render(<<<<>>>>, <<<<<<"x">>>>>>, FALSE),
    Render(<<<<"I", "D">>>>, <<<<<<"x", "|", "x">>>>>>, FALSE),
    Render(<<<<"I", "D">>>>, <<<<<<"x">>>>>>, TRUE) \o <<"\n", "|", " ", "y", " ", "|">>,
    Render(<<<<"I", "D">>>>, <<<<<<"x">>>>>>, FALSE)
      \o <<"\n", "|", " ", "y", " ", "|", "\n">> \o Border(1),
    <<"+", "-", "-", "+", "\n", "|", "a">>,
    <<"+", "-", "-", "+", "\n", "|", " ", "|", "a", "\n", "|", " ", "x", " ", "|">> }

TableInit ==
  /\ pin \in { t \in WellFormedTables : \A r \in DOMAIN t.cells : Len(t.cells[r]) = Len(t.names) }
             \cup { TextInput(cs, <<>>, <<>>) : cs \in OtherTexts }
             \cup { [NoInput EXCEPT !.kind = "js", !.v = v] : v \in OddInputs }
  /\ pout = NoOutput

ParseTable ==
  /\ pin.kind = "text"
  /\ pout' = Applied("parseAsciiTableResult", parseAsciiTableResult(pin.cs))
  /\ UNCHANGED pin

ParseSmartAscii ==
  /\ pin.kind # "none"
  /\ pout' = Applied("parseResultSmartAscii", parseResultSmartAscii(pin.v, pin.cs))
  /\ UNCHANGED pin

InitTable == SupInit /\ TableInit /\ InterceptorIdle /\ ListIdle /\ StoreIdle /\ MwIdle

NextTable ==
  \/ ParseTable /\ UNCHANGED notParserVars
  \/ ParseSmartAscii /\ UNCHANGED notParserVars

SpecTable == InitTable /\ [][NextTable]_vars

----------------------------------------------------------------------------
(* The message interceptor (resultPanel.ts:465-535).                       *)

(* resultPanel.ts:494-515, the three arrow functions one activate() makes  *)
Wrappers(i, g) == [k \in Kinds |-> [by |-> i, gen |-> g, kind |-> k]]

(* resultPanel.ts:529-532, what deactivate() installs                      *)
RestoredNothing(orig, current) == current

Restored(orig, current) == orig

Called(op, i) ==
  [NoCall EXCEPT !.op = op, !.i = i, !.wasActive = icpt[i].isActive,
                 !.winBefore = win]

(* the latest calls, for the properties that speak of a sequence of calls  *)
Trail(op, i) ==
  trail' = IF Len(trail) < 4 THEN Append(trail, <<op, i>>)
           ELSE Append(Tail(trail), <<op, i>>)

(* new MessageInterceptor(options): the functions installed now are kept   *)
Construct(i, f, t) ==
  /\ ~icpt[i].made
  /\ icpt' = [icpt EXCEPT ![i] = [made |-> TRUE, isActive |-> FALSE, orig |-> win,
                                  filter |-> f, transformer |-> t]]
  /\ ilast' = Called("construct", i)
  /\ UNCHANGED <<win, gen>>

Activate(i) ==
  /\ icpt[i].made
  /\ ilast' = Called("activate", i)
  /\ IF icpt[i].isActive
     THEN UNCHANGED <<win, icpt, gen>>
     ELSE /\ gen < MaxActivations
          /\ gen' = gen + 1
          /\ win' = Wrappers(i, gen + 1)
          /\ icpt' = [icpt EXCEPT ![i].isActive = TRUE]

Deactivate(i) ==
  /\ icpt[i].made
  /\ ilast' = Called("deactivate", i)
  /\ IF ~icpt[i].isActive
     THEN UNCHANGED <<win, icpt, gen>>
     ELSE /\ win' = Restored(icpt[i].orig, win)
          /\ icpt' = [icpt EXCEPT ![i].isActive = FALSE]
          /\ UNCHANGED gen

(* setFilter / setTransformer: only the option is replaced                 *)
SetFilter(i, f) ==
  /\ icpt[i].made
  /\ icpt' = [icpt EXCEPT ![i].filter = f]
  /\ ilast' = Called("setFilter", i)
  /\ UNCHANGED <<win, gen>>

SetTransformer(i, t) ==
  /\ icpt[i].made
  /\ icpt' = [icpt EXCEPT ![i].transformer = t]
  /\ ilast' = Called("setTransformer", i)
  /\ UNCHANGED <<win, gen>>

(* the notification texts, and the options a caller supplies: a filter     *)
(* built from the texts it suppresses, a transformer that rewrites one     *)
Messages == {"m1", "m2"}
Filters ==
  {NoFilter} \cup {[has |-> TRUE, rejects |-> {m}] : m \in Messages}
Transformers == {NoTransformer, [has |-> TRUE, from |-> "m1", to |-> "m2"]}

(* options.filter(message, type), options.transformer(message, type)       *)
FilterAcceptsAll(f, message) == TRUE
FilterAccepts(f, message) == message \notin f.rejects
TransformNothing(t, message) == message
Transform(t, message) == IF message = t.from THEN t.to ELSE message

(* handleMessage up to the call of originalMethod: the steps taken, whether *)
(* the call goes on, and the first argument it goes on with                 *)
handleMessage(i, message) ==
  LET o == icpt[i] IN
  IF o.filter.has /\ ~FilterAccepts(o.filter, message)
  THEN [i |-> i, got |-> message, steps |-> <<"log", "filter">>,
        delegated |-> FALSE, passed |-> ""]
  ELSE IF o.transformer.has
  THEN [i |-> i, got |-> message,
        steps |-> <<"log", "filter", "transform", "delegate">>,
        delegated |-> TRUE, passed |-> Transform(o.transformer, message)]
  ELSE [i |-> i, got |-> message, steps |-> <<"log", "filter", "delegate">>,
        delegated |-> TRUE, passed |-> message]

(* calling a notification function: a host function shows the message, a   *)
(* wrapper hands it to its instance, which may call the function it kept   *)
RECURSIVE Invoke(_, _)
Invoke(f, message) ==
  IF f.by = 0
  THEN [hops |-> <<>>, hostGot |-> <<message>>, result |-> "shown"]
  ELSE LET h == handleMessage(f.by, message) IN
       IF ~h.delegated
       THEN [hops |-> <<h>>, hostGot |-> <<>>, result |-> "undefined"]
       ELSE LET r == Invoke(icpt[f.by].orig[f.kind], h.passed)
            IN  [r EXCEPT !.hops = <<h>> \o r.hops]

(* some extension code calls vscode.window.show<Kind>Message(message)      *)
Notify(kind, message) ==
  LET r == Invoke(win[kind], message) IN
  /\ ilast' = [op |-> "notify", i |-> win[kind].by,
               wasActive |-> win[kind].by # 0 /\ icpt[win[kind].by].isActive,
               winBefore |-> win, kind |-> kind, message |-> message,
               hops |-> r.hops, hostGot |-> r.hostGot, result |-> r.result]
  /\ UNCHANGED <<win, icpt, gen>>

InitInterceptor == SupInit /\ ParserIdle /\ InterceptorIdle /\ ListIdle /\ StoreIdle /\ MwIdle

NextInterceptor ==
  \/ \E i \in Interceptors :
        Construct(i, NoFilter, NoTransformer) /\ Trail("construct", i)
        /\ UNCHANGED notInterceptorVars
  \/ \E i \in Interceptors :
        Activate(i) /\ Trail("activate", i) /\ UNCHANGED notInterceptorVars
  \/ \E i \in Interceptors :
        Deactivate(i) /\ Trail("deactivate", i) /\ UNCHANGED notInterceptorVars

SpecInterceptor == InitInterceptor /\ [][NextInterceptor]_vars

(* The interceptor with a filter, and notification calls: the instances   *)
(* are constructed with or without a filter and without a transformer.     *)
InitNotify == SupInit /\ ParserIdle /\ InterceptorIdle /\ ListIdle /\ StoreIdle /\ MwIdle

NextNotify ==
  \/ \E i \in Interceptors, f \in Filters :
        Construct(i, f, NoTransformer) /\ UNCHANGED <<trail, notInterceptorVars>>
  \/ \E i \in Interceptors :
        Activate(i) /\ UNCHANGED <<trail, notInterceptorVars>>
  \/ \E i \in Interceptors :
        Deactivate(i) /\ UNCHANGED <<trail, notInterceptorVars>>
  \/ \E i \in Interceptors, f \in Filters \ {NoFilter} :
        SetFilter(i, f) /\ UNCHANGED <<trail, notInterceptorVars>>
  \/ \E kind \in Kinds, message \in Messages :
        Notify(kind, message) /\ UNCHANGED <<trail, notInterceptorVars>>

SpecNotify == InitNotify /\ [][NextNotify]_vars

(* The interceptor with filters and transformers swapped at run time, and  *)
(* notification calls that carry further arguments (the button labels).    *)
OtherArgs == { <<>>, <<"Retry", "Cancel">> }

(* the instances taking part: two are enough for a wrapper that delegates  *)
(* to the wrapper of another instance                                      *)
Swapped == {i \in Interceptors : i <= 2}

(* resultPanel.ts:580, [transformedMessage, ...args.slice(1)]              *)
NewArgsOnlyMessage(transformedMessage, args) == <<transformedMessage>>
NewArgs(transformedMessage, args) == <<transformedMessage>> \o Tail(args)

(* some extension code calls vscode.window.show<Kind>Message(...args)      *)
NotifyArgs(kind, args) ==
  LET r == Invoke(win[kind], args[1]) IN
  /\ ilast' = [op |-> "notify", i |-> win[kind].by,
               wasActive |-> win[kind].by # 0 /\ icpt[win[kind].by].isActive,
               winBefore |-> win, kind |-> kind, message |-> args[1],
               hops |-> r.hops,
               hostGot |-> IF r.hostGot = <<>> THEN <<>>
                           ELSE NewArgs(r.hostGot[1], args),
               result |-> r.result, args |-> args]
  /\ UNCHANGED <<win, icpt, gen>>

InitTransform == SupInit /\ ParserIdle /\ InterceptorIdle /\ ListIdle /\ StoreIdle /\ MwIdle

NextTransform ==
  \/ \E i \in Swapped :
        Construct(i, NoFilter, NoTransformer)
        /\ UNCHANGED <<trail, notInterceptorVars>>
  \/ \E i \in Swapped :
        Activate(i) /\ UNCHANGED <<trail, notInterceptorVars>>
  \/ \E i \in Swapped :
        Deactivate(i) /\ UNCHANGED <<trail, notInterceptorVars>>
  \/ \E i \in Swapped, f \in Filters \ {NoFilter} :
        SetFilter(i, f) /\ UNCHANGED <<trail, notInterceptorVars>>
  \/ \E i \in Swapped, t \in Transformers \ {NoTransformer} :
        SetTransformer(i, t) /\ UNCHANGED <<trail, notInterceptorVars>>
  \/ \E kind \in Kinds, message \in Messages, rest \in OtherArgs :
        NotifyArgs(kind, <<message>> \o rest)
        /\ UNCHANGED <<trail, notInterceptorVars>>

SpecTransform == InitTransform /\ [][NextTransform]_vars

----------------------------------------------------------------------------
(* Cross-connection listing: listDatabases/listTables for an alias that is *)
(* not the default one (the tree view calls them, part_005:99-124).  Each  *)
(* command is awaited, so the steps of concurrent calls interleave.        *)

(* the alias a listing keeps to switch back to                             *)
SavedAliasTarget(activeNow, target) == target

SavedAlias(activeNow, target) == activeNow

InProgress(q) == calls[q].pc \in {"switched", "listed"}

(* a switch made by someone else reaches every listing in progress         *)
Disturb(cs, p) ==
  [q \in Callers |->
     IF q # p /\ InProgress(q) THEN [cs[q] EXCEPT !.disturbed = TRUE] ELSE cs[q]]

(* step 1: remember the active alias and switch to the target              *)
ListBegin(p, t) ==
  /\ calls[p].pc = "idle"
  /\ t # DefaultAlias
  /\ active' = t
  /\ calls' = Disturb([calls EXCEPT ![p] =
                 [pc |-> "switched", target |-> t,
                  prev |-> SavedAlias(active, t), before |-> active,
                  issued |-> << <<"switch", t>> >>, failed |-> FALSE,
                  disturbed |-> FALSE]], p)
  /\ llast' = [op |-> "begin", p |-> p]
  /\ UNCHANGED lastReq

(* step 2: the listing command, answered or failed                         *)
ListStep(p, ok) ==
  /\ calls[p].pc = "switched"
  /\ calls' = [calls EXCEPT ![p].pc = "listed", ![p].failed = ~ok,
                            ![p].issued = Append(@, <<"list", calls[p].target>>)]
  /\ llast' = [op |-> "list", p |-> p]
  /\ UNCHANGED <<active, lastReq>>

(* step 3, in the cleanup block: switch back                               *)
ListRestore(p) ==
  /\ calls[p].pc = "listed"
  /\ active' = calls[p].prev
  /\ calls' = Disturb([calls EXCEPT ![p].pc = "done",
                            ![p].issued = Append(@, <<"switch", calls[p].prev>>)], p)
  /\ llast' = [op |-> "restore", p |-> p]
  /\ UNCHANGED lastReq

(* switchConnection(alias), part_000:180-181                               *)
SwitchConnection(a) ==
  /\ active' = a
  /\ lastReq' = a
  /\ calls' = Disturb(calls, 0)
  /\ llast' = [op |-> "switchConnection", p |-> 0]

InitList == SupInit /\ ParserIdle /\ InterceptorIdle /\ ListIdle /\ StoreIdle /\ MwIdle

NextList ==
  \/ \E p \in Callers, t \in Aliases : ListBegin(p, t) /\ UNCHANGED notListVars
  \/ \E p \in Callers, ok \in BOOLEAN : ListStep(p, ok) /\ UNCHANGED notListVars
  \/ \E p \in Callers : ListRestore(p) /\ UNCHANGED notListVars
  \/ \E a \in Aliases : SwitchConnection(a) /\ UNCHANGED notListVars

SpecList == InitList /\ [][NextList]_vars

----------------------------------------------------------------------------
(* The connection config store (ConnectionConfigManager): static methods   *)
(* over the extension's globalState, a key-value store whose update()      *)
(* takes effect at once and whose keys() lists the keys in the order they  *)
(* were first written.                                                     *)

DefaultConnectionConfigKey == "sqls.conn.default"
AliasPrefix == "sqls.conn.alias."

(* `sqls.conn.alias.${alias}` *)
Key(alias) == AliasPrefix \o alias

(* the aliases and connection strings the callers store: the commands      *)
(* refuse an empty alias                                                   *)
StoredAliases == {"a", "b"}
DataSources == {"d1", "d2"}
Config(alias, dsn) == [alias |-> alias, dataSourceName |-> dsn]

(* key.startsWith("sqls.conn.alias."), over the keys that occur            *)
IsAliasKey(k) == \E a \in StoredAliases : k = Key(a)

(* globalState.get(key), globalState.update(key, value), globalState.keys() *)
MemGet(m, k) ==
  IF \E i \in DOMAIN m : m[i].key = k
    THEN m[CHOOSE i \in DOMAIN m : m[i].key = k].value
    ELSE NoConfig
MemUpdate(m, k, v) ==
  IF v = NoConfig
    THEN SelectSeq(m, LAMBDA e : e.key # k)
    ELSE IF \E i \in DOMAIN m : m[i].key = k
      THEN [i \in DOMAIN m |-> IF m[i].key = k THEN [key |-> k, value |-> v] ELSE m[i]]
      ELSE Append(m, [key |-> k, value |-> v])
MemKeys(m, d) ==
  [i \in DOMAIN m |-> m[i].key]
    \o (IF d = NoAlias THEN <<>> ELSE <<DefaultConnectionConfigKey>>)

(* getConnectionConfig(context, alias) *)
getConnectionConfig(m, alias) == MemGet(m, Key(alias))

(* getConnectionConfigs: every alias-prefixed entry, flagged when the      *)
(* default pointer is set and names it                                     *)
SelectedAlways(d, config) == TRUE
Selected(d, config) == d # NoAlias /\ config.alias = d
getConnectionConfigs(m, d) ==
  LET keys == SelectSeq(MemKeys(m, d),
                        LAMBDA k : IsAliasKey(k) /\ MemGet(m, k) # NoConfig)
  IN  [i \in DOMAIN keys |->
         [selected |-> Selected(d, MemGet(m, keys[i])),
          config |-> MemGet(m, keys[i])]]

(* getCurrentConnectionConfig: the pointer's config when the pointer is    *)
(* set; otherwise the first alias-prefixed key whose lookup, made with the *)
(* key in the place of the alias, finds something                          *)
getCurrentConnectionConfig(m, d) ==
  IF d # NoAlias
    THEN getConnectionConfig(m, d)
    ELSE LET found == SelectSeq(MemKeys(m, d),
                        LAMBDA k : IsAliasKey(k) /\ getConnectionConfig(m, k) # NoConfig)
         IN  IF found = <<>> THEN NoConfig ELSE getConnectionConfig(m, found[1])

(* what a call that runs while clearConnectionConfig is in flight leaves   *)
(* in its record                                                           *)
During(upsert, select) ==
  IF clr.pc = "idle" THEN clr
  ELSE [clr EXCEPT !.upserted = @ \/ upsert, !.selected = @ \/ select]

StoreCall(op, alias) == [NoStoreCall EXCEPT !.op = op, !.alias = alias]

(* updateConnectionConfig(context, config) *)
UpdateConnectionConfig(alias, dsn) ==
  /\ mem' = MemUpdate(mem, Key(alias), Config(alias, dsn))
  /\ clr' = During(TRUE, FALSE)
  /\ slast' = StoreCall("update", alias)
  /\ UNCHANGED dflt

(* removeConnectionConfig(context, alias) *)
RemovedWithPointer(m, d, alias) ==
  [mem |-> MemUpdate(m, Key(alias), NoConfig),
   dflt |-> IF d = alias THEN NoAlias ELSE d]
Removed(m, d, alias) ==
  [mem |-> MemUpdate(m, Key(alias), NoConfig), dflt |-> d]
RemoveConnectionConfig(alias) ==
  /\ mem' = Removed(mem, dflt, alias).mem
  /\ dflt' = Removed(mem, dflt, alias).dflt
  /\ clr' = During(FALSE, FALSE)
  /\ slast' = [StoreCall("remove", alias) EXCEPT
                 !.existed = getConnectionConfig(mem, alias) # NoConfig]

(* selectConnectionConfig(context, alias) *)
SelectConnectionConfig(alias) ==
  /\ dflt' = alias
  /\ clr' = During(FALSE, TRUE)
  /\ slast' = StoreCall("select", alias)
  /\ UNCHANGED mem

(* clearConnectionConfig, first turn: the pointer is deleted, the call     *)
(* awaits                                                                  *)
ClearBegin ==
  /\ clr.pc = "idle"
  /\ dflt' = NoAlias
  /\ clr' = [NoClear EXCEPT !.pc = "scan"]
  /\ slast' = StoreCall("clearBegin", "")
  /\ UNCHANGED mem

(* the keys a clear in flight still has to visit                           *)
ClearKeepsFirst(keys) == IF keys = <<>> THEN keys ELSE Tail(keys)
ClearTargets(keys) == keys

(* clearConnectionConfig, later turns: keys() is read once when the loop   *)
(* starts; each turn deletes the next alias-prefixed key and awaits; the   *)
(* call returns in the turn that finds no key left                         *)
ClearStep ==
  /\ clr.pc \in {"scan", "loop"}
  /\ LET todo == IF clr.pc = "scan"
                   THEN ClearTargets(SelectSeq(MemKeys(mem, dflt), IsAliasKey))
                   ELSE clr.todo
     IN IF todo = <<>>
        THEN /\ clr' = NoClear
             /\ slast' = [StoreCall("clearDone", "") EXCEPT
                            !.deleted = clr.deleted, !.upserted = clr.upserted,
                            !.selected = clr.selected]
             /\ UNCHANGED mem
        ELSE /\ mem' = MemUpdate(mem, Head(todo), NoConfig)
             /\ clr' = [clr EXCEPT !.pc = "loop", !.todo = Tail(todo),
                                   !.deleted = @ + 1]
             /\ slast' = StoreCall("clearStep", "")
  /\ UNCHANGED dflt

(* a caller reads the store *)
ListAll ==
  /\ slast' = [StoreCall("listAll", "") EXCEPT !.list = getConnectionConfigs(mem, dflt)]
  /\ UNCHANGED <<mem, dflt, clr>>

GetCurrent ==
  /\ slast' = [StoreCall("getCurrent", "") EXCEPT
                 !.cur = getCurrentConnectionConfig(mem, dflt)]
  /\ UNCHANGED <<mem, dflt, clr>>

(* selectConnectionConfigByConnectionConfig: the settings pushed           *)
Pushed(config) == <<config>>

(* selectConnectionConfigByAlias(context, alias, client, changeDefault):   *)
(* the pointer is set when asked, and when the alias is stored its config  *)
(* is pushed through SqlsClient.didChangeConfiguration                     *)
SelectConnectionConfigByAlias(alias, changeDefault) ==
  LET config == getConnectionConfig(mem, alias) IN
  /\ dflt' = IF changeDefault THEN alias ELSE dflt
  /\ clr' = During(FALSE, changeDefault)
  /\ slast' = IF config = NoConfig
                THEN StoreCall("selectByAlias", alias)
                ELSE [StoreCall("selectByAlias", alias) EXCEPT
                        !.pushed = TRUE,
                        !.sent = IsServerRunning(state, client),
                        !.connections = Pushed(config)]
  /\ UNCHANGED mem

(* The store is used while the supervisor is stopped or running: the       *)
(* running supervisor is the one a first successful startServer leaves.    *)
SupRunning ==
  /\ client = 1
  /\ state = TRUE
  /\ restartCount = 0
  /\ lib = [c \in Clients |-> IF c = 1 THEN "Running" ELSE "Stopped"]
  /\ created = 1
  /\ pending = {}
  /\ inflight = 0
  /\ last = [Ev("handshakeOk", 1) EXCEPT !.results = {<<"startServer", "ok">>}]
  /\ closedRun = 0
  /\ resetFrom = 0

InitStore ==
  (SupInit \/ SupRunning) /\ ParserIdle /\ InterceptorIdle /\ ListIdle /\ StoreIdle /\ MwIdle

NextStore ==
  \/ \E a \in StoredAliases, d \in DataSources :
        UpdateConnectionConfig(a, d) /\ UNCHANGED notStoreVars
  \/ \E a \in StoredAliases : RemoveConnectionConfig(a) /\ UNCHANGED notStoreVars
  \/ \E a \in StoredAliases : SelectConnectionConfig(a) /\ UNCHANGED notStoreVars
  \/ ClearBegin /\ UNCHANGED notStoreVars
  \/ ClearStep /\ UNCHANGED notStoreVars
  \/ ListAll /\ UNCHANGED notStoreVars
  \/ GetCurrent /\ UNCHANGED notStoreVars
  \/ \E a \in StoredAliases, cd \in BOOLEAN :
        SelectConnectionConfigByAlias(a, cd) /\ UNCHANGED notStoreVars

SpecStore == InitStore /\ [][NextStore]_vars

(***************************************************************************)
(* The execute-command middleware of the language client                   *)
(* (lspClient.ts, middleware.executeCommand).  A call shows the loading    *)
(* view for executeQuery, awaits next(command, args), and either displays  *)
(* the parsed result, forwards a command VS Code does not know to the      *)
(* server, or displays the error and rethrows.  mw[p].log is what call p   *)
(* asked the result panel to display, in order.                            *)
(***************************************************************************)
MwCommands == {"executeQuery", "showConnections"}

\* Error messages, as their characters.
NotFoundText == <<"n", "o", "t", " ", "f", "o", "u", "n", "d">>
UnknownCommandText == <<"U", "n", "k", "n", "o", "w", "n", " ", "c", "o", "m", "m", "a", "n", "d">>
MwErrors == { <<"x", " ">> \o NotFoundText,
              UnknownCommandText \o <<":", " ", "x">>,
              <<"b", "a", "d", " ", "s", "q", "l">> }

\* What next(command, args) can resolve to.
MwResults == { Str("done"),
               Shaped(Arr(<<Column("a")>>), Arr(<<Arr(<<Num(1)>>)>>), Undef) }

isCommandNotFound(errorMsg) ==
  Includes(errorMsg, NotFoundText) \/ Includes(errorMsg, UnknownCommandText)

MwDone(c, log, outcome) == [c EXCEPT !.pc = "done", !.log = log, !.outcome = outcome]

\* executeCommand up to its first await of next(command, args).
MwBegin(p, command) ==
  /\ mw[p].pc \in {"idle", "done"}
  /\ mw' = [mw EXCEPT ![p] =
       [pc |-> "next", command |-> command,
        log |-> IF command = "executeQuery" THEN <<"displayLoading">> ELSE <<>>,
        outcome |-> "none"]]

\* next(command, args) resolved with result.
MwNextResolved(p, result) ==
  /\ mw[p].pc = "next"
  /\ LET c == mw[p]
         parsedResult == parseResultSmart(result)
     IN mw' = [mw EXCEPT ![p] =
          IF c.command # "executeQuery"
          THEN MwDone(c, c.log, "returned")
          ELSE IF parsedResult.thrown
          THEN MwDone(c, Append(c.log, "displayError"), "thrown")
          ELSE MwDone(c, Append(c.log, "displayResults"), "returned")]

\* next(command, args) rejected with errorMsg: the catch block.
MwNextRejected(p, errorMsg) ==
  /\ mw[p].pc = "next"
  /\ LET c == mw[p]
     IN mw' = [mw EXCEPT ![p] =
          IF isCommandNotFound(errorMsg)
          THEN \* forwardCommandToServer
               IF NotAvailable(client, state)
               THEN MwDone(c, c.log, "thrown")
               ELSE [c EXCEPT !.pc = "forward"]
          ELSE MwDone(c, Append(c.log, "displayError"), "thrown")]

\* The forwarded workspace/executeCommand request settled.
MwForwardSettled(p, ok) ==
  /\ mw[p].pc = "forward"
  /\ mw' = [mw EXCEPT ![p] =
       MwDone(mw[p], mw[p].log, IF ok THEN "returned" ELSE "thrown")]

InitMiddleware ==
  (SupInit \/ SupRunning) /\ ParserIdle /\ InterceptorIdle /\ ListIdle
  /\ StoreIdle /\ MwIdle

NextMiddleware ==
  \/ \E p \in Callers, command \in MwCommands :
        MwBegin(p, command) /\ UNCHANGED notMwVars
  \/ \E p \in Callers, result \in MwResults :
        MwNextResolved(p, result) /\ UNCHANGED notMwVars
  \/ \E p \in Callers, errorMsg \in MwErrors :
        MwNextRejected(p, errorMsg) /\ UNCHANGED notMwVars
  \/ \E p \in Callers, ok \in BOOLEAN :
        MwForwardSettled(p, ok) /\ UNCHANGED notMwVars

SpecMiddleware == InitMiddleware /\ [][NextMiddleware]_vars

----------------------------------------------------------------------------
(* Properties of the result normalizer.                                    *)

Smart == pout.fn = "parseResultSmart"
Json == pout.fn = "parseJsonResult"

HasColumnsAndRows(v) == v.t = "obj" /\ In("columns", v) /\ In("rows", v)

AllOf(items, kind) == \A i \in DOMAIN items : items[i].t = kind

Distinct(items) ==
  \A i, j \in DOMAIN items : items[i] = items[j] => i = j

\* C14: parseResultSmart returns a QueryResult and never throws, whatever
\* value it is given (string, object, array, null, undefined, primitive).
C14_SmartNeverThrows == Smart => ~pout.thrown

(* columns and rows given as an array of objects, the rows possibly none    *)
AlreadyShaped(v) ==
  /\ HasColumnsAndRows(v)
  /\ IsArray(Get(v, "columns"))
  /\ IsArray(Get(v, "rows"))
  /\ AllOf(Get(v, "rows").items, "obj")

\* C15: a value that already has columns and rows as an array of objects,
\* the empty array included, comes back from parseResultSmart unchanged.
C15_ShapedComesBackUnchanged ==
  (Smart /\ AlreadyShaped(pin.v)) => (~pout.thrown /\ pout.v = pin.v)

(* columns given as names and rows as an array of arrays                    *)
Positional(v) ==
  /\ HasColumnsAndRows(v)
  /\ IsArray(Get(v, "columns")) /\ AllOf(Get(v, "columns").items, "str")
  /\ IsArray(Get(v, "rows")) /\ AllOf(Get(v, "rows").items, "arr")

NullLike == {Str("null"), Null, Undef, Str("<nil>")}

(* out holds one row object per row of v, in order, column i bound to the   *)
(* i-th value of the row, and counts the rows                               *)
ZippedFrom(v, out) ==
  LET names == Get(v, "columns").items
      rowsIn == Get(v, "rows").items
      rowsOut == Get(out, "rows")
  IN /\ Get(out, "columns") = Arr([i \in DOMAIN names |-> Column(names[i])])
     /\ IsArray(rowsOut) /\ Len(rowsOut.items) = Len(rowsIn)
     /\ \A r \in DOMAIN rowsIn :
          /\ rowsOut.items[r].t = "obj"
          /\ \A i \in DOMAIN names :
               LET given == Index(rowsIn[r], i - 1)
               IN Get(rowsOut.items[r], names[i].s) =
                    IF given \in NullLike THEN Null ELSE given
     /\ Get(out, "rowsAffected") = Num(Len(rowsIn))

AcknowledgesRows(out, n) ==
  /\ Get(out, "columns") = Arr(<<Column(Str("rows_affected"))>>)
  /\ Get(out, "rows") = Arr(<<Obj(<<"rows_affected">>, <<n>>)>>)
  /\ Get(out, "rowsAffected") = n

NumericRowsAffected(v) ==
  v.t = "obj" /\ TypeOf(Get(v, "rows_affected")) = "number"

\* C17 as stated: every object with a numeric rows_affected n, also one that
\* carries columns and rows besides, gives exactly one column rows_affected,
\* one row {rows_affected: n} and rowsAffected n.
C17_RowsAffectedAlwaysWins ==
  (Smart /\ NumericRowsAffected(pin.v)) =>
     (~pout.thrown /\ AcknowledgesRows(pout.v, Get(pin.v, "rows_affected")))

(* the rows the fast path of parseResultSmart takes as they are             *)
RowsOfObjects(v) ==
  /\ Truthy(Get(v, "columns"))
  /\ IsArray(Get(v, "rows")) /\ Get(v, "rows").items # <<>>
  /\ TypeOf(Get(v, "rows").items[1]) = "object"
  /\ ~IsArray(Get(v, "rows").items[1])

\* C17 amended: an object with a numeric rows_affected n (0 included) gives
\* exactly one column rows_affected, one row {rows_affected: n} and
\* rowsAffected n, also when it carries columns and rows, unless its columns
\* is truthy and its rows is a non-empty array whose first element is an
\* object that is not an array: that object comes back unchanged.
C17_RowsAffectedWinsButFastPath ==
  (Smart /\ NumericRowsAffected(pin.v)) =>
     /\ ~pout.thrown
     /\ IF RowsOfObjects(pin.v) THEN pout.v = pin.v
        ELSE AcknowledgesRows(pout.v, Get(pin.v, "rows_affected"))

C17_Witness ==
  /\ Smart
  /\ pin.v = Shaped(Arr(<<Str("a")>>), Arr(<<Arr(<<Num(1)>>)>>), Num(2))
  /\ pout.v = RowsAffectedResult(Num(2))

(* the names listed in columns, where they are listed as {name: text}       *)
ListedNames(out) ==
  LET columns == Get(out, "columns")
  IN IF ~IsArray(columns) THEN {}
     ELSE { Get(columns.items[i], "name").s :
              i \in {j \in DOMAIN columns.items :
                       Get(columns.items[j], "name").t = "str"} }

\* C19: in every QueryResult the normalizer produces, every row is a mapping
\* that has every column name listed in columns as a key.
C19_RowsCoverColumns ==
  (pout.fn # "none" /\ ~pout.thrown /\ IsArray(Get(pout.v, "rows"))) =>
     \A r \in DOMAIN Get(pout.v, "rows").items :
        LET row == Get(pout.v, "rows").items[r]
        IN row.t = "obj" /\ \A name \in ListedNames(pout.v) : In(name, row)

Table == pout.fn = "parseAsciiTableResult"

(* the input is a printed table with header pin.names and rows pin.cells    *)
WellFormedTable == pin.kind = "text" /\ pin.names # <<>>

NullCells == { <<"<", "n", "i", "l", ">">>, <<"N", "U", "L", "L">>, <<>> }

(* out lists the header names in order and holds one row per printed row,   *)
(* in order, each with every name as a key, name i bound to the i-th cell  *)
TableParsed(out) ==
  LET rowsOut == Get(out, "rows")
  IN /\ Get(out, "columns") =
          Arr([i \in DOMAIN pin.names |-> Column(Str(FromChars(pin.names[i])))])
     /\ IsArray(rowsOut) /\ Len(rowsOut.items) = Len(pin.cells)
     /\ \A r \in DOMAIN pin.cells :
          /\ rowsOut.items[r].t = "obj"
          /\ \A i \in DOMAIN pin.names :
               /\ In(FromChars(pin.names[i]), rowsOut.items[r])
               /\ Get(rowsOut.items[r], FromChars(pin.names[i])) =
                    IF pin.cells[r][i] \in NullCells THEN Null
                    ELSE Str(FromChars(pin.cells[r][i]))

\* C18 as stated: every well-formed ASCII table with header columns C and N
\* data rows of |C| fields each gives columns C in header order and exactly
\* N rows in input order, each keyed by every name of C, the cells <nil>,
\* NULL and the empty string mapped to null, every other cell to its text.
C18_EveryTableIsParsed ==
  (Table /\ WellFormedTable) => (~pout.thrown /\ TableParsed(pout.v))

\* C18 amended: the same, for tables whose header line contains at least one
\* letter and whose column names are pairwise distinct.
C18_TableWithLetterHeaderIsParsed ==
  ( /\ Table /\ WellFormedTable
    /\ \E i \in DOMAIN pin.names : HasLetter(pin.names[i])
    /\ Distinct(pin.names) ) =>
     (~pout.thrown /\ TableParsed(pout.v))

C18_Witness ==
  /\ Table
  /\ pin.names = << <<"1">>, <<"N">> >>
  /\ pin.cells = << << <<"x">>, <<"<", "n", "i", "l", ">">> >>,
                    << <<"N", "U", "L", "L">>, <<>> >> >>
  /\ Includes(pin.cs, Footer)
  /\ ~pout.thrown
  /\ Get(pout.v, "rows") =
       Arr(<<Obj(<<"1", "N">>, <<Str("x"), Null>>), Obj(<<"1", "N">>, <<Null, Null>>)>>)
  /\ Get(pout.v, "rowsAffected") = Num(2)

----------------------------------------------------------------------------
(* Properties of the message interceptor.                                  *)

Made == {i \in Interceptors : icpt[i].made}

\* C20: with one interceptor, after a sequence of activate() and
\* deactivate() calls that ends with deactivate() the three notification
\* functions are the very functions captured at construction; an activate()
\* while active installs nothing new and a deactivate() while inactive
\* changes nothing.
C20_DeactivateRestoresOriginals ==
  (Cardinality(Made) = 1 /\ ilast.i \in Made) =>
     /\ ilast.op = "deactivate" =>
          /\ win = icpt[ilast.i].orig
          /\ win = HostWindow
          /\ ~icpt[ilast.i].isActive
     /\ (ilast.op = "activate" /\ ilast.wasActive) =>
          (win = ilast.winBefore /\ icpt[ilast.i].isActive)
     /\ (ilast.op = "deactivate" /\ ~ilast.wasActive) => win = ilast.winBefore

C20_Witness ==
  /\ Made = {1}
  /\ trail = << <<"activate", 1>>, <<"activate", 1>>,
                      <<"deactivate", 1>>, <<"deactivate", 1>> >>
  /\ win = HostWindow
  /\ gen > 0

----------------------------------------------------------------------------
(* Properties of cross-connection listing.                                 *)

\* C12: a listing for a non-default alias issues, in this order, a switch to
\* the target, the listing command and a switch back to the alias that was
\* active before, also when the listing fails; with no switch by anyone
\* else during the call the active alias after it is the one before it.
C12_ListingRestoresActive ==
  /\ \A p \in Callers :
       calls[p].pc = "done" =>
          calls[p].issued = << <<"switch", calls[p].target>>,
                               <<"list", calls[p].target>>,
                               <<"switch", calls[p].before>> >>
  /\ (llast.op = "restore" /\ ~calls[llast.p].disturbed) =>
        active = calls[llast.p].before

C12_Witness ==
  /\ llast.op = "restore"
  /\ calls[llast.p].failed
  /\ ~calls[llast.p].disturbed
  /\ calls[llast.p].target # calls[llast.p].before
  /\ active = calls[llast.p].before

AllDone == \A p \in Callers : calls[p].pc = "done"

\* C13: switch-list-restore is not atomic: concurrent listings can end, all
\* calls completed, with an active alias that is neither the one active
\* before them nor the one last requested by switchConnection; this happens
\* only to calls during which someone else switched.
C13_OnlyOverlapMisleads ==
  (AllDone /\ active \notin {DefaultAlias, lastReq}) =>
     \E p \in Callers : calls[p].disturbed

C13_Witness ==
  /\ AllDone
  /\ lastReq = "none"
  /\ active # DefaultAlias
  /\ \A p \in Callers : calls[p].before # active \/ calls[p].disturbed
  /\ \E p \in Callers : calls[p].before = DefaultAlias

(***************************************************************************)
(* Message interceptor: notification calls (SpecNotify)                    *)
(***************************************************************************)

(* what the function kept by the instance that took the call was called    *)
(* with: the next instance in the chain, or the host function               *)
UnderlyingGot ==
  IF Len(ilast.hops) >= 2 THEN <<ilast.hops[2].got>> ELSE ilast.hostGot

(* C21: while an interceptor is active and its wrappers are the installed  *)
(* functions, a call whose message its filter rejects reaches neither the  *)
(* function the interceptor kept nor the host and resolves to undefined,   *)
(* and a call whose message the filter accepts (or that meets no filter)   *)
(* reaches the kept function exactly once, whatever the filter rejects     *)
(* for other messages.                                                     *)
C21_FilterDecidesDelivery ==
  (ilast.op = "notify" /\ ilast.i # 0 /\ icpt[ilast.i].isActive) =>
    LET o == icpt[ilast.i]
        rejected == o.filter.has /\ ilast.message \in o.filter.rejects
    IN  /\ Len(ilast.hops) >= 1
        /\ ilast.hops[1].i = ilast.i
        /\ ilast.hops[1].got = ilast.message
        /\ IF rejected
           THEN /\ Len(ilast.hops) = 1
                /\ ilast.hostGot = <<>>
                /\ UnderlyingGot = <<>>
                /\ ilast.result = "undefined"
           ELSE /\ Len(UnderlyingGot) = 1
                /\ UnderlyingGot[1] = ilast.hops[1].passed
                /\ o.orig[ilast.kind].by = 0 => ilast.hostGot = UnderlyingGot
                /\ o.orig[ilast.kind].by # 0 =>
                     /\ Len(ilast.hops) >= 2
                     /\ ilast.hops[2].i = o.orig[ilast.kind].by

(* one interceptor, active, suppresses "m1": the call with "m1" reached    *)
(* nothing and resolved to undefined                                       *)
C21_Witness ==
  /\ ilast.op = "notify"
  /\ Made = {1}
  /\ icpt[1].isActive
  /\ icpt[1].filter = [has |-> TRUE, rejects |-> {"m1"}]
  /\ ilast.message = "m1"
  /\ ilast.hostGot = <<>>
  /\ ilast.result = "undefined"

(* the sibling call with "m2" went through the same interceptor to the host *)
C21_SiblingDelivered ==
  /\ ilast.op = "notify"
  /\ Made = {1}
  /\ icpt[1].isActive
  /\ icpt[1].filter = [has |-> TRUE, rejects |-> {"m1"}]
  /\ ilast.message = "m2"
  /\ ilast.hostGot = <<"m2">>
  /\ ilast.result = "shown"


(***************************************************************************)
(* Connection supervisor: configuration push, concurrency, frame effects   *)
(***************************************************************************)

(* C26: whenever startServer succeeds, a didChangeConfiguration has been   *)
(* sent to the server by the time startServer returns to its caller.       *)
C26_StartPushesConfiguration ==
  (last.op = "handshakeOk" /\ Returned("startServer", "ok")) => last.notified

(* C28: in every reachable state the running flag being true implies that  *)
(* a client is held.                                                       *)
C28_RunningImpliesClientHeld ==
  state => client # NoClient

(* a step in which restartServer, called with a client held, begins or     *)
(* returns, and no startServer returns                                     *)
RestartReturns ==
  /\ \E o \in {"ok", "RestartFailed"} : <<"restartServer", o>> \in last'.results
  /\ ~ \E o \in {"ok", "StartFailed"} : <<"startServer", o>> \in last'.results
RestartBegins ==
  last'.op = "restartServer" /\ client # NoClient

(* C29: restartServer() called with a client held never changes            *)
(* restartCount, whether it begins, succeeds or fails; when it returns     *)
(* with restartCount = 5 the closed handler still answers DoNotRestart.    *)
C29_ManualRestartKeepsCount ==
  [][/\ (RestartBegins \/ RestartReturns) => restartCount' = restartCount
     /\ (RestartReturns /\ restartCount = maxRestartAttempts) =>
          ClosedHandler(restartCount').action = "DoNotRestart"]_vars

(* a manual restart has succeeded with the budget used up, and the client  *)
(* runs with a closed handler that will not restart it                     *)
C29_Witness ==
  /\ last.op = "handshakeOk"
  /\ Returned("restartServer", "ok")
  /\ ~Returned("startServer", "ok")
  /\ restartCount = maxRestartAttempts
  /\ lib[last.c] = "Running"
  /\ ClosedHandler(restartCount).action = "DoNotRestart"

(* C30: a failed executeServerCommand throws to its caller, shows the      *)
(* error, and leaves _state, the held client, restartCount and the        *)
(* client's library state as they were.                                    *)
C30_FailedCommandChangesNothing ==
  [][(last'.op = "commandSettled"
        /\ <<"executeServerCommand", "CommandFailed">> \in last'.results) =>
       /\ last'.shown
       /\ state' = state
       /\ client' = client
       /\ restartCount' = restartCount
       /\ lib' = lib]_vars

C30_Witness ==
  /\ last.op = "commandSettled"
  /\ Returned("executeServerCommand", "CommandFailed")
  /\ last.shown
  /\ state
  /\ client # NoClient


(***************************************************************************)
(* Properties of the connection config store (SpecStore)                   *)
(***************************************************************************)

(* the stored configs in enumeration order, and the one an alias names     *)
StoredConfigs == [i \in DOMAIN mem |-> mem[i].value]
IsStored(alias) == \E i \in DOMAIN mem : mem[i].value.alias = alias

(* C22: getCurrent() returns the config the default pointer names when it  *)
(* is stored; when the pointer is unset or names no stored config and a    *)
(* config is stored, the first stored config in enumeration order; absent  *)
(* only when nothing is stored.                                            *)
C22_CurrentFallsBackToFirst ==
  slast.op = "getCurrent" =>
    slast.cur = IF dflt # NoAlias /\ IsStored(dflt)
                  THEN StoredConfigs[CHOOSE i \in DOMAIN mem : mem[i].value.alias = dflt]
                ELSE IF mem # <<>> THEN StoredConfigs[1]
                ELSE NoConfig

(* C23: listAll() returns exactly the stored configs, flags at most one of *)
(* them, and flags an entry exactly when its alias is the default pointer. *)
C23_ListAllMarksThePointer ==
  slast.op = "listAll" =>
    /\ [i \in DOMAIN slast.list |-> slast.list[i].config] = StoredConfigs
    /\ Cardinality({i \in DOMAIN slast.list : slast.list[i].selected}) <= 1
    /\ \A i \in DOMAIN slast.list :
         slast.list[i].selected <=> slast.list[i].config.alias = dflt

(* two configs are stored, the pointer names one, and listAll flagged it   *)
C23_Witness ==
  /\ slast.op = "listAll"
  /\ Len(slast.list) = 2
  /\ dflt # NoAlias
  /\ \E i \in DOMAIN slast.list :
       /\ slast.list[i].selected
       /\ slast.list[i].config.alias = dflt

(* what a completed clearAll is said to leave                              *)
Cleared ==
  /\ dflt = NoAlias
  /\ mem = <<>>
  /\ getConnectionConfigs(mem, dflt) = <<>>
  /\ getCurrentConnectionConfig(mem, dflt) = NoConfig

(* C24 as stated: when clearAll() completes and no upsert ran while it was *)
(* in flight, the pointer is unset and nothing is stored.                  *)
C24_ClearAllLeavesNothing ==
  (slast.op = "clearDone" /\ ~slast.upserted) => Cleared

(* C24: when clearAll() completes and neither an upsert nor a setDefault   *)
(* ran while it was in flight, the pointer is unset, no alias-prefixed     *)
(* entry remains, listAll() is empty and getCurrent() is absent.           *)
C24_UndisturbedClearAllLeavesNothing ==
  (slast.op = "clearDone" /\ ~slast.upserted /\ ~slast.selected) => Cleared

(* a clearAll that deleted two entries has completed undisturbed           *)
C24_Witness ==
  /\ slast.op = "clearDone"
  /\ slast.deleted = 2
  /\ ~slast.upserted
  /\ ~slast.selected
  /\ Cleared

(* C25: remove(alias) deletes the entry of that alias only: the other      *)
(* entries keep their values and their order, and the default pointer      *)
(* keeps its value, also when it names the removed alias.                  *)
C25_RemoveTouchesOneEntry ==
  [][slast'.op = "remove" =>
       /\ mem' = SelectSeq(mem, LAMBDA e : e.value.alias # slast'.alias)
       /\ ~ \E i \in DOMAIN mem' : mem'[i].value.alias = slast'.alias
       /\ dflt' = dflt]_vars

(* the alias the pointer names was stored and has been removed: the other  *)
(* config is still stored and the pointer still names the removed alias    *)
C25_Witness ==
  /\ slast.op = "remove"
  /\ slast.existed
  /\ dflt = slast.alias
  /\ ~IsStored(slast.alias)
  /\ Len(mem) = 1

(* C27: every configuration push that is sent carries all the configs      *)
(* stored at that moment.                                                  *)
C27_PushCarriesAllConfigs ==
  (slast.pushed /\ slast.sent) =>
    {slast.connections[i] : i \in DOMAIN slast.connections}
      = {StoredConfigs[i] : i \in DOMAIN StoredConfigs}


(***************************************************************************)
(* Connection supervisor: the one client held                              *)
(***************************************************************************)

(* C31: a client is built only while none is held, and a held client is    *)
(* given up only by a stopServer that returns in that step, which leaves   *)
(* none held; so the supervisor never holds a second client beside or in   *)
(* place of one it has not released.                                       *)
C31_OneClientHeld ==
  [][/\ created' > created => client = NoClient
     /\ (client # NoClient /\ client' # client) =>
          /\ client' = NoClient
          /\ \E o \in {"ok", "StopFailed"} : <<"stopServer", o>> \in last'.results]_vars

(* a second client has been built and is held, after stopServer released   *)
(* the first one                                                           *)
C31_Witness ==
  /\ last.newClient
  /\ last.c = 2
  /\ client = 2
  /\ created = 2
  /\ lib[2] = "Starting"


(***************************************************************************)
(* Execute-command middleware claims                                       *)
(***************************************************************************)
\* C32: for an executeQuery command, every displayLoading is followed by a
\* displayResults or a displayError of that call, on every outcome: a call
\* that has finished and showed the loading view has a display after it.
C32_LoadingIsAnswered ==
  \A p \in Callers :
     (mw[p].pc = "done" /\ mw[p].command = "executeQuery") =>
        /\ Len(mw[p].log) = 2
        /\ mw[p].log[1] = "displayLoading"
        /\ mw[p].log[2] \in {"displayResults", "displayError"}

(***************************************************************************)
(* Interceptor claims about several instances                              *)
(***************************************************************************)
\* C33: with two or more instances, whenever no instance is active the
\* three notification functions are the original host functions.
C33_NoneActiveMeansHostFunctions ==
  (\A i \in Interceptors : ~icpt[i].isActive) => win = HostWindow

(***************************************************************************)
(* Result-normalizer claims about JSON text                                *)
(***************************************************************************)
\* C34: for a string that parses as strict JSON, parseResultSmart returns
\* what it returns for the parsed value itself; the raw string is wrapped as
\* one column "result" with one row only when the JSON parse fails.
C34_JsonTextLikeItsValue ==
  (/\ pout.fn = "parseResultSmart"
   /\ TypeOf(pin.v) = "string") =>
     LET jsonData == JsonParse(pin.v.s)
     IN /\ ~jsonData.thrown =>
              pout = Applied("parseResultSmart", parseResultSmart(jsonData.v))
        /\ pout.v = SingleResult(pin.v) => jsonData.thrown

(***************************************************************************)
(* ASCII-table claims about headers, row widths and footers                *)
(***************************************************************************)
TableShaped(cs) == Includes(cs, <<"+", "-", "-">>) /\ Includes(cs, <<"|">>)

\* the header line of the text gives no non-empty column name, or the text
\* has no header line
NoColumns(cs) ==
  LET lines == NonBlank(Split(cs, "\n"))
      h == HeaderLine(lines)
  IN h = 0 \/ \A k \in DOMAIN Inner(Split(lines[h], "|")) :
                 Trim(Inner(Split(lines[h], "|"))[k]) = <<>>

HeaderNames(cs) ==
  LET lines == NonBlank(Split(cs, "\n"))
  IN NonEmpty(TrimAll(Inner(Split(lines[HeaderLine(lines)], "|"))))

ScannedRows(cs) ==
  LET lines == NonBlank(Split(cs, "\n"))
      h == HeaderLine(lines)
      after == SubSeq(lines, h + 1, Len(lines))
      stops == {k \in DOMAIN after :
                  ~StartsWith(after[k], "|") /\ ~StartsWith(after[k], "+")}
      upto == IF stops = {} THEN Len(after)
              ELSE (CHOOSE k \in stops : \A j \in stops : k <= j) - 1
  IN SelectSeq(SubSeq(after, 1, upto), LAMBDA l : StartsWith(l, "|"))

FieldsOf(line) == TrimAll(Inner(Split(line, "|")))

\* C36: a data row is kept if and only if its number of fields equals the
\* number of header columns; other rows are dropped without error and
\* without affecting the kept ones, and rowsAffected is the number kept.
C36_RowKeptIffWidthFits ==
  (/\ pin.kind = "text" /\ pout.fn = "parseAsciiTableResult"
   /\ ~NoColumns(pin.cs)) =>
     LET names == HeaderNames(pin.cs)
         kept == SelectSeq(ScannedRows(pin.cs),
                           LAMBDA l : Len(FieldsOf(l)) = Len(names))
     IN /\ ~pout.thrown
        /\ Get(pout.v, "rows").items =
             [k \in DOMAIN kept |->
                TableRow(names, FieldsOf(kept[k]), 0, Obj(<<>>, <<>>))]
        /\ Get(pout.v, "rowsAffected") = Num(Len(kept))

\* a one-column table with a two-field row before a one-field row
C36_Witness ==
  /\ pin.cs = Render(<<<<"I", "D">>>>, <<<<<<"x">>, <<"x">>>>, <<<<"x">>>>>>, FALSE)
  /\ pout.fn = "parseAsciiTableResult"
  /\ Len(ScannedRows(pin.cs)) = 2
  /\ Get(pout.v, "rowsAffected") = Num(1)

RECURSIVE JoinLines(_)
JoinLines(lines) ==
  IF lines = <<>> THEN <<>>
  ELSE IF Len(lines) = 1 THEN lines[1]
  ELSE lines[1] \o <<"\n">> \o JoinLines(Tail(lines))

\* the text up to, and without, its footer: the first non-blank line after
\* the header that starts with neither | nor +
BeforeFooter(cs) ==
  LET lines == NonBlank(Split(cs, "\n"))
      h == HeaderLine(lines)
      stops == {k \in (h + 1)..Len(lines) :
                  ~StartsWith(lines[k], "|") /\ ~StartsWith(lines[k], "+")}
  IN IF stops = {} THEN JoinLines(lines)
     ELSE JoinLines(SubSeq(lines, 1, (CHOOSE k \in stops : \A j \in stops : k <= j) - 1))

\* the text without the border lines after its header
WithoutBorders(cs) ==
  LET lines == NonBlank(Split(cs, "\n"))
      h == HeaderLine(lines)
  IN JoinLines(SubSeq(lines, 1, h)
               \o SelectSeq(SubSeq(lines, h + 1, Len(lines)),
                            LAMBDA l : ~StartsWith(l, "+")))

\* C37: row scanning stops at the first non-blank line after the header
\* that starts with neither | nor +: the lines from that footer on add no
\* row, also when they start with |; border lines are skipped without
\* stopping the scan.
C37_ScanStopsAtFooter ==
  (/\ pin.kind = "text" /\ pout.fn = "parseAsciiTableResult"
   /\ ~NoColumns(pin.cs)) =>
     /\ pout = Applied("parseAsciiTableResult",
                       parseAsciiTableResult(BeforeFooter(pin.cs)))
     /\ pout = Applied("parseAsciiTableResult",
                       parseAsciiTableResult(WithoutBorders(pin.cs)))

\* a row, the footer, and a line starting with | after it
C37_Witness ==
  /\ pin.cs = Render(<<<<"I", "D">>>>, <<<<<<"x">>>>>>, TRUE) \o <<"\n", "|", " ", "y", " ", "|">>
  /\ pout.fn = "parseAsciiTableResult"
  /\ BeforeFooter(pin.cs) # pin.cs
  /\ Get(pout.v, "rowsAffected") = Num(1)

(***************************************************************************)
(* Result-normalizer claim about arrays of objects                         *)
(***************************************************************************)
PlainObject(v) == TypeOf(v) = "object" /\ v.t = "obj"

ArrayOfObjects(v) ==
  /\ IsArray(v) /\ Len(v.items) > 0
  /\ \A k \in DOMAIN v.items : PlainObject(v.items[k])

\* C38: for a plain non-empty array of objects, parseResultSmart returns the
\* keys of the first element, in insertion order, as the columns, the input
\* array as the rows, and the array length as rowsAffected.
C38_ArrayOfObjectsBecomesRows ==
  (pout.fn = "parseResultSmart" /\ ArrayOfObjects(pin.v)) =>
     /\ ~pout.thrown
     /\ pout.v = QueryResult(
          Arr([k \in DOMAIN pin.v.items[1].keys |->
                 Column(Str(pin.v.items[1].keys[k]))]),
          pin.v, Num(Len(pin.v.items)))

(***************************************************************************)
(* Interceptor claims about the steps of a call and the run-time setters   *)
(***************************************************************************)
StepOrder == <<"log", "filter", "transform", "delegate">>
StepPos(step) == CHOOSE k \in DOMAIN StepOrder : StepOrder[k] = step

C40_SettersTakeEffectInPlace ==
  [][/\ ilast'.op = "setFilter" =>
          /\ win' = win
          /\ \E f \in Filters :
               icpt' = [icpt EXCEPT ![ilast'.i] = [@ EXCEPT !.filter = f]]
     /\ ilast'.op = "setTransformer" =>
          /\ win' = win
          /\ \E t \in Transformers :
               icpt' = [icpt EXCEPT ![ilast'.i] = [@ EXCEPT !.transformer = t]]
     /\ \A i \in Interceptors :
          (icpt[i].made /\ icpt'[i].filter # icpt[i].filter) =>
             ilast'.op = "setFilter" /\ ilast'.i = i
     /\ \A i \in Interceptors :
          (icpt[i].made /\ icpt'[i].transformer # icpt[i].transformer) =>
             ilast'.op = "setTransformer" /\ ilast'.i = i
     /\ ilast'.op = "notify" =>
          \A k \in DOMAIN ilast'.hops :
             LET h == ilast'.hops[k]
                 o == icpt[h.i]
             IN /\ h.delegated <=> (~o.filter.has \/ h.got \notin o.filter.rejects)
                /\ h.delegated =>
                     h.passed = IF o.transformer.has /\ h.got = o.transformer.from
                                THEN o.transformer.to ELSE h.got]_vars

\* an active instance, given a filter and a transformer after construction,
\* suppresses the one message and rewrites nothing
C40_Witness ==
  /\ ilast.op = "notify"
  /\ Len(ilast.hops) = 1
  /\ icpt[ilast.hops[1].i].isActive
  /\ icpt[ilast.hops[1].i].filter = [has |-> TRUE, rejects |-> {"m1"}]
  /\ icpt[ilast.hops[1].i].transformer.has
  /\ ilast.message = "m1"
  /\ ~ilast.hops[1].delegated
====
